---- MODULE Spec2Model ----
(***************************************************************************)
(* xschema CLI: the generation pipeline.                                   *)
(*                                                                         *)
(*   SpecRetrieve  retriever.Retrieve: dispatch loop, errgroup workers,    *)
(*                 schema cache, URL retries, cancellation                 *)
(*   SpecParse     parser.Parse / mergeDeclarations                        *)
(*   SpecGenerate  generator.GenerateAll / Generate                        *)
(*   SpecInject    injector.InjectClient on the client file                *)
(*   SpecBackoff   the retry delay of retrieveFromURL in 64-bit arithmetic  *)
(*   SpecMerge     language.MergeImports                                   *)
(*   SpecRun       cmd.runGenerate: the four stages and their errors       *)
(*   SpecPipeline  retrieve, generate and render of one project, twice     *)
(*   SpecExec      generator.Generate and its adapter subprocess           *)
(*   SpecCache     schemaCache.get / set under the RWMutex                 *)
(*   SpecWrite     injector.Inject: the write of the generated file        *)
(*                                                                         *)
(* Each specification drives one stage; the variables of the other stages  *)
(* stay at their idle values.                                              *)
(***************************************************************************)
EXTENDS Integers, Sequences, FiniteSets, TLC

VARIABLES
    \* ---- retriever ----
    decls,            \* []parser.Declaration handed to Retrieve
    opts,             \* retriever.Options
    srvK,             \* the server answers 500 to the first srvK requests of a URL
    srvFinal,         \* and then this: "ok", "badjson", "notfound", "toomany"
    srvHits,          \* requests the server has received, per URL
    fileStatus,       \* what os.ReadFile finds: "ok", "missing", "badjson"
    pcMain,           \* position of Retrieve's own goroutine
    idx,              \* loop index of the dispatch loop (1-based)
    cache,            \* schemaCache.items (NoEntry = key absent)
    workers,          \* the goroutine started by g.Go for each declaration
    running,          \* goroutines started and not yet exited (errgroup slots held)
    gerr,             \* errgroup: first error recorded by errOnce
    ctxDone,          \* the errgroup's derived context is cancelled
    parentCancelled,  \* the caller cancelled the context given to Retrieve
    results,          \* results slice, filled positionally
    slotWrites,       \* who wrote each slot of results, write after write
    ret,              \* what Retrieve returned
    \* ---- parser ----
    files,            \* the candidate files, in discovery order
    langFilter,       \* Parse's langFilter ("" = auto-detect)
    pcParse,          \* position of Parse: off, discover, loop, done
    fileIdx,          \* index of the next file of the loop
    configs,          \* configs collected so far (filtered, once Parse is done)
    detectedLang,     \* detectedLang
    languageConflict, \* languageConflict
    parseCancelled,   \* the context given to Parse is cancelled
    filesRead,        \* files read by parseConfigFile
    parseRet,         \* what Parse returned
    \* ---- generator ----
    genIn,            \* the retrieved schemas handed to GenerateAll
    genLang,          \* langName
    runnerFound,      \* exec.LookPath finds the runner binary
    adapterBehaviour, \* what each adapter subprocess does with its batch
    pcGen,            \* position of GenerateAll
    genK,             \* index of the next adapter group
    allOutputs,       \* allOutputs
    genCalls,         \* the adapter invocations made, in order, with their batches
    genRet,           \* what GenerateAll returned
    \* ---- injector ----
    clientFile,       \* content of the client file on disk
    injLang,          \* InjectClientInput.Language
    injOutDir,        \* InjectClientInput.OutDir
    injHist,          \* content of the file after each InjectClient call
    injWrites,        \* os.WriteFile calls made on the client file
    \* ---- backoff ----
    boRetries,        \* opts.Retries of the fetch
    boPc,             \* position in retrieveFromURL's attempt loop
    boAttempt,        \* attempt (0-based loop variable)
    boDelays,         \* the delays waited so far, 64-bit two's complement
    \* ---- merge ----
    mergeLang,        \* language whose MergeImports is called
    mergeIn,          \* the import strings handed to MergeImports
    mergeIdx,         \* index of the import the merge loop is at
    mergeMaps,        \* the maps and lists the merge loop fills
    mergePc,          \* off, scan, done
    mergeOut,         \* the merged import text
    \* ---- run ----
    cfg,              \* flags of the generate command: DryRun, Adapter, OutputDir
    env,              \* what the run meets: parse and retrieve outcomes, project files, failures
    runPc,            \* off, parse, stub, retrieve, filter, generate, inject, done
    batches,          \* the batches Retrieve returned, after the adapter filter
    batchIdx,         \* index of the batch the generate loop is at
    outputsByLang,    \* language -> outputs generated so far
    toInject,         \* languages the inject loop has not visited yet
    subprocs,         \* adapters whose subprocess was started, in order
    written,          \* paths of the files written
    plan,             \* batches printed by the dry run
    runErr,           \* the error runGenerate returned
    stages,           \* the stage calls runGenerate has made, in order
    \* ---- pipeline ----
    pipeLang,         \* language of the project
    pipeDecls,        \* adapter of each declaration, in input order
    pipePc,           \* off, retrieve, generate, inject, done
    pipeResults,      \* the results slice of Retrieve, filled by the workers
    pipeAdapters,     \* the sorted adapter keys GenerateAll loops over
    pipeK,            \* index of the adapter group GenerateAll is at
    pipeOutputs,      \* allOutputs of GenerateAll
    pipeFiles,        \* content of the generated file after each finished run
    \* ---- exec ----
    execIn,           \* the batch's language, the runner lookup, what the adapter process does
    execPc,           \* position of Generate: off, entry, start, wait, done
    execCtx,          \* the context given to Generate is cancelled
    proc,             \* the adapter subprocess: none, running, exited, reaped
    procKilled,       \* the context watcher of exec.Cmd has killed the subprocess
    execRet,          \* what Generate returned
    \* ---- cache ----
    scOps,            \* the calls on the cache, one per goroutine: [kind, key, val]
    scPc,             \* position of each call
    scMu,             \* schemaCache.mu: the writer holding it (0: none) and the readers
    scItems,          \* schemaCache.items as memory words, two per value
    scGot,            \* what each get returned
    \* ---- write ----
    outDirExists,     \* whether the output directory exists
    outFile,          \* the output file: [exists, content], content a sequence of blocks
    rendered,         \* the bytes the template produced (buf.Bytes())
    outPrev,          \* the output file as it was before Inject
    writePc,          \* position of Inject between MkdirAll and its return
    seen              \* what the concurrent reader saw at each of its reads

rvars == <<decls, opts, srvK, srvFinal, srvHits, fileStatus, pcMain, idx, cache,
           workers, running, gerr, ctxDone, parentCancelled, results, slotWrites, ret>>

pvars == <<files, langFilter, pcParse, fileIdx, configs, detectedLang, languageConflict,
           parseCancelled, filesRead, parseRet>>

gvars == <<genIn, genLang, runnerFound, adapterBehaviour, pcGen, genK, allOutputs, genCalls, genRet>>

ivars == <<clientFile, injLang, injOutDir, injHist, injWrites>>

bvars == <<boRetries, boPc, boAttempt, boDelays>>

mvars == <<mergeLang, mergeIn, mergeIdx, mergeMaps, mergePc, mergeOut>>

runvars == <<cfg, env, runPc, batches, batchIdx, outputsByLang, toInject, subprocs, written, plan,
             runErr, stages>>

plvars == <<pipeLang, pipeDecls, pipePc, pipeResults, pipeAdapters, pipeK, pipeOutputs, pipeFiles>>

xvars == <<execIn, execPc, execCtx, proc, procKilled, execRet>>

cvars == <<scOps, scPc, scMu, scItems, scGot>>

wvars == <<outDirExists, outFile, rendered, outPrev, writePc, seen>>

vars == <<rvars, pvars, gvars, ivars, bvars, mvars, runvars, plvars, xvars, cvars, wvars>>

notRetrieve == <<pvars, gvars, ivars, bvars, mvars, runvars, plvars, xvars, cvars, wvars>>
notParse == <<rvars, gvars, ivars, bvars, mvars, runvars, plvars, xvars, cvars, wvars>>
notGenerate == <<rvars, pvars, ivars, bvars, mvars, runvars, plvars, xvars, cvars, wvars>>
notInject == <<rvars, pvars, gvars, bvars, mvars, runvars, plvars, xvars, cvars, wvars>>
notBackoff == <<rvars, pvars, gvars, ivars, mvars, runvars, plvars, xvars, cvars, wvars>>
notMerge == <<rvars, pvars, gvars, ivars, bvars, runvars, plvars, xvars, cvars, wvars>>
notRun == <<rvars, pvars, gvars, ivars, bvars, mvars, plvars, xvars, cvars, wvars>>
notPipeline == <<rvars, pvars, gvars, ivars, bvars, mvars, runvars, xvars, cvars, wvars>>
notExec == <<rvars, pvars, gvars, ivars, bvars, mvars, runvars, plvars, cvars, wvars>>
notPipelineMerge == <<rvars, pvars, gvars, ivars, bvars, runvars, xvars, cvars, wvars>>
notCache == <<rvars, pvars, gvars, ivars, bvars, mvars, runvars, plvars, xvars, wvars>>
notWrite == <<rvars, pvars, gvars, ivars, bvars, mvars, runvars, plvars, xvars, cvars>>

-----------------------------------------------------------------------------
\* Bounds of the model.
MaxDecls == 2
MaxConc == 1
MaxRetries == 2
MaxK == 2
MaxFiles == 2
MaxSchemas == 3
MaxRuns == 3
MaxBackoffRetries == 38
MaxImports == 2
MaxBatches == 2
MaxPipeDecls == 3
NCacheCalls == 4
MaxBlocks == 2
MaxReads == 2

-----------------------------------------------------------------------------
\* Values

NoEntry == "NoEntry"
NoError == "nil"
NoResult == "zero"

URLs == {"u1", "u2"}
Files == {"f1"}
SourceURL == "url"
SourceFile == "file"
SourceJSON == "json"

ConfigPath == <<"proj", "xschema.jsonc">>

\* filepath.Dir
Dir(path) == SubSeq(path, 1, Len(path) - 1)

\* Declaration i of a batch: namespace, id and adapter are fixed per position so
\* that positions can be told apart; (namespace, id) is unique as the parser
\* guarantees.  Namespace and id are strings, kept as their characters.
MkDecl(i, kind, src) ==
    [Namespace |-> <<"ns">>, ID |-> <<i>>, SourceType |-> kind,
     Source |-> IF kind = SourceJSON THEN <<"inline", i>> ELSE src,
     Adapter |-> IF i % 2 = 1 THEN "zod" ELSE "arktype",
     ConfigPath |-> ConfigPath]

SourceChoices ==
    {<<SourceURL, u>> : u \in URLs} \cup {<<SourceFile, f>> : f \in Files}
        \cup {<<SourceJSON, "">>}

\* Two inline declarations the parser accepts, of different namespaces,
\* whose namespace and id hold the separator of Declaration.Key.
ColonDecls ==
    << [MkDecl(1, SourceJSON, "") EXCEPT !.Namespace = <<"a", ":", "b">>, !.ID = <<"c">>],
       [MkDecl(2, SourceJSON, "") EXCEPT !.Namespace = <<"a">>, !.ID = <<"b", ":", "c">>] >>

DeclLists ==
    UNION {{[i \in 1..n |-> MkDecl(i, c[i][1], c[i][2])] : c \in [1..n -> SourceChoices]}
           : n \in 0..MaxDecls}
    \cup {ColonDecls}

\* Declaration.Key: d.Namespace + ":" + d.ID
Key(d) == d.Namespace \o <<":">> \o d.ID

\* The cache key Retrieve builds from the source type.
CacheKey(d) ==
    CASE d.SourceType = SourceURL -> <<"url", d.Source>>
      [] d.SourceType = SourceFile -> <<"file", Dir(d.ConfigPath), d.Source>>
      [] OTHER -> <<"json", Key(d)>>

\* The bytes behind a source: the 200 body of a URL, the content of a file,
\* the embedded JSON itself.
BodyOf(url) == <<"body", url>>
ContentOf(dir, file) == <<"content", dir, file>>
BytesOf(d) ==
    CASE d.SourceType = SourceURL -> BodyOf(d.Source)
      [] d.SourceType = SourceFile -> ContentOf(Dir(d.ConfigPath), d.Source)
      [] OTHER -> d.Source

AllKeys ==
    {CacheKey(MkDecl(i, c[1], c[2])) : i \in 1..(MaxDecls + 1), c \in SourceChoices}
    \cup {CacheKey(ColonDecls[i]) : i \in DOMAIN ColonDecls}

N == Len(decls)

HasKind(ds, kind) == \E i \in 1..Len(ds) : ds[i].SourceType = kind

IdleWorker ==
    [pc |-> "idle", attempt |-> 0, schema |-> NoResult, err |-> NoError,
     lastErr |-> NoError, reqs |-> 0, calls |-> 0, fetches |-> 0]

-----------------------------------------------------------------------------
\* retrieveFromURL

\* Mutant: a retries option below one allows two attempts.
maxAttemptsFloorTwo == IF opts.Retries < 2 THEN 2 ELSE opts.Retries

\* maxAttempts := opts.Retries; if maxAttempts < 1 { maxAttempts = 1 }
maxAttempts == IF opts.Retries < 1 THEN 1 ELSE opts.Retries

\* What the server answers to the next request of a URL.
ServerAnswer(url) == IF srvHits[url] < srvK THEN "servererror" ELSE srvFinal

\* Mutant: the attempt loop runs one attempt too many.
NextAttemptOneMore(w, lastErr) ==
    IF w.attempt + 1 <= maxAttempts
        THEN [w EXCEPT !.attempt = @ + 1, !.lastErr = lastErr, !.pc = "backoff"]
        ELSE [w EXCEPT !.attempt = @ + 1, !.lastErr = lastErr, !.err = lastErr,
                       !.pc = "return"]

\* `continue` of the attempt loop: the next attempt, or return lastErr when
\* the attempts are used up.
NextAttempt(w, lastErr) ==
    IF w.attempt + 1 < maxAttempts
        THEN [w EXCEPT !.attempt = @ + 1, !.lastErr = lastErr, !.pc = "backoff"]
        ELSE [w EXCEPT !.attempt = @ + 1, !.lastErr = lastErr, !.err = lastErr,
                       !.pc = "return"]

\* Worker return with an error: wrapped with the declaration's key.
ReturnErr(w, e) == [w EXCEPT !.err = e, !.pc = "return"]

\* Mutant: data that is not valid JSON is retried like a 5xx.
RetryInvalidJSON(w) == NextAttempt(w, "InvalidJSON")

\* if !json.Valid(data) { return nil, fmt.Errorf("invalid JSON ...") }
OnInvalidJSON(w) == ReturnErr(w, "InvalidJSON")


-----------------------------------------------------------------------------
\* Retrieve: the worker goroutine of declaration i (the closure given to g.Go)

\* The goroutine starts: the switch on d.SourceType.
WStart(i) ==
    /\ workers[i].pc = "start"
    /\ workers' = [workers EXCEPT ![i] =
         CASE decls[i].SourceType = SourceURL ->
                [@ EXCEPT !.pc = "request", !.attempt = 0, !.fetches = @ + 1]
           [] decls[i].SourceType = SourceFile ->
                [@ EXCEPT !.pc = "file", !.fetches = @ + 1]
           [] OTHER ->
                [@ EXCEPT !.pc = "store", !.schema = decls[i].Source]]
    /\ UNCHANGED <<decls, opts, srvK, srvFinal, srvHits, fileStatus, pcMain, idx, cache,
                   running, gerr, ctxDone, parentCancelled, results, slotWrites, ret, notRetrieve>>

\* Mutant: every status other than 200 is retried like a 5xx.
WRequestRetriesAnyStatus(i) ==
    LET w == workers[i]
        url == decls[i].Source
        ans == ServerAnswer(url)
    IN
    /\ w.pc = "request"
    /\ IF ctxDone
         THEN /\ workers' = [workers EXCEPT ![i] =
                   NextAttempt([w EXCEPT !.calls = @ + 1], "TransportError")]
              /\ UNCHANGED srvHits
         ELSE /\ srvHits' = [srvHits EXCEPT ![url] = @ + 1]
              /\ workers' = [workers EXCEPT ![i] =
                   LET w1 == [w EXCEPT !.reqs = @ + 1, !.calls = @ + 1] IN
                   CASE ans = "servererror" -> NextAttempt(w1, "ServerError")
                     [] ans = "ok" -> [w1 EXCEPT !.schema = BodyOf(url), !.pc = "store"]
                     [] ans = "badjson" -> OnInvalidJSON(w1)
                     [] OTHER -> NextAttempt(w1, "HTTPStatus")]
    /\ UNCHANGED <<decls, opts, srvK, srvFinal, fileStatus, pcMain, idx, cache,
                   running, gerr, ctxDone, parentCancelled, results, slotWrites, ret, notRetrieve>>

\* One HTTP request of retrieveFromURL (client.Do, io.ReadAll, status and JSON checks).
\* A request made with a cancelled context fails in the transport without
\* reaching the server.
WRequest(i) ==
    LET w == workers[i]
        url == decls[i].Source
        ans == ServerAnswer(url)
    IN
    /\ w.pc = "request"
    /\ IF ctxDone
         THEN /\ workers' = [workers EXCEPT ![i] =
                   NextAttempt([w EXCEPT !.calls = @ + 1], "TransportError")]
              /\ UNCHANGED srvHits
         ELSE /\ srvHits' = [srvHits EXCEPT ![url] = @ + 1]
              /\ workers' = [workers EXCEPT ![i] =
                   LET w1 == [w EXCEPT !.reqs = @ + 1, !.calls = @ + 1] IN
                   CASE ans = "servererror" -> NextAttempt(w1, "ServerError")
                     [] ans = "ok" -> [w1 EXCEPT !.schema = BodyOf(url), !.pc = "store"]
                     [] ans = "badjson" -> OnInvalidJSON(w1)
                     [] OTHER -> ReturnErr(w1, "HTTPStatus")]
    /\ UNCHANGED <<decls, opts, srvK, srvFinal, fileStatus, pcMain, idx, cache,
                   running, gerr, ctxDone, parentCancelled, results, slotWrites, ret, notRetrieve>>

\* Mutant: the delay is slept through without watching ctx.Done().
WBackoffSleep(i) ==
    /\ workers[i].pc = "backoff"
    /\ workers' = [workers EXCEPT ![i].pc = "request"]
    /\ UNCHANGED <<decls, opts, srvK, srvFinal, srvHits, fileStatus, pcMain, idx, cache,
                   running, gerr, ctxDone, parentCancelled, results, slotWrites, ret, notRetrieve>>

\* The select before a retry: the delay elapses first.
WBackoffTimer(i) ==
    /\ workers[i].pc = "backoff"
    /\ ~ctxDone
    /\ workers' = [workers EXCEPT ![i].pc = "request"]
    /\ UNCHANGED <<decls, opts, srvK, srvFinal, srvHits, fileStatus, pcMain, idx, cache,
                   running, gerr, ctxDone, parentCancelled, results, slotWrites, ret, notRetrieve>>

\* The select before a retry: ctx.Done() wins, return ctx.Err().
WBackoffCancel(i) ==
    /\ workers[i].pc = "backoff"
    /\ ctxDone
    /\ workers' = [workers EXCEPT ![i] = ReturnErr(@, "Cancelled")]
    /\ UNCHANGED <<decls, opts, srvK, srvFinal, srvHits, fileStatus, pcMain, idx, cache,
                   running, gerr, ctxDone, parentCancelled, results, slotWrites, ret, notRetrieve>>

\* retrieveFromFile: the cancellation check, the read, the JSON check.
WFile(i) ==
    LET w == workers[i] IN
    /\ w.pc = "file"
    /\ workers' = [workers EXCEPT ![i] =
         IF ctxDone THEN ReturnErr(w, "Cancelled")
         ELSE CASE fileStatus = "missing" -> ReturnErr(w, "ReadFailed")
                [] fileStatus = "badjson" -> OnInvalidJSON(w)
                [] OTHER -> [w EXCEPT !.pc = "store",
                               !.schema = ContentOf(Dir(decls[i].ConfigPath), decls[i].Source)]]
    /\ UNCHANGED <<decls, opts, srvK, srvFinal, srvHits, fileStatus, pcMain, idx, cache,
                   running, gerr, ctxDone, parentCancelled, results, slotWrites, ret, notRetrieve>>

\* if cache != nil { cache.set(cacheKey, schema) }
WStore(i) ==
    /\ workers[i].pc = "store"
    /\ cache' = IF opts.NoCache THEN cache
                ELSE [cache EXCEPT ![CacheKey(decls[i])] = workers[i].schema]
    /\ workers' = [workers EXCEPT ![i].pc = "finish"]
    /\ UNCHANGED <<decls, opts, srvK, srvFinal, srvHits, fileStatus, pcMain, idx,
                   running, gerr, ctxDone, parentCancelled, results, slotWrites, ret, notRetrieve>>

\* The RetrievedSchema stored for declaration d.
MkResult(d, schema) ==
    [Namespace |-> d.Namespace, ID |-> d.ID, Schema |-> schema, Adapter |-> d.Adapter]

\* results[idx] = RetrievedSchema{...}; return nil
WFinish(i) ==
    /\ workers[i].pc = "finish"
    /\ results' = [results EXCEPT ![i] = MkResult(decls[i], workers[i].schema)]
    /\ slotWrites' = [slotWrites EXCEPT ![i] = Append(@, "worker")]
    /\ workers' = [workers EXCEPT ![i].pc = "return"]
    /\ UNCHANGED <<decls, opts, srvK, srvFinal, srvHits, fileStatus, pcMain, idx, cache,
                   running, gerr, ctxDone, parentCancelled, ret, notRetrieve>>

\* Mutant: the group keeps the error of the last worker that failed.
WExitLastError(i) ==
    LET w == workers[i] IN
    /\ w.pc = "return"
    /\ IF w.err # NoError
         THEN gerr' = <<Key(decls[i]), w.err>> /\ ctxDone' = TRUE
         ELSE UNCHANGED <<gerr, ctxDone>>
    /\ running' = running - 1
    /\ workers' = [workers EXCEPT ![i].pc = "exited"]
    /\ UNCHANGED <<decls, opts, srvK, srvFinal, srvHits, fileStatus, pcMain, idx, cache,
                   parentCancelled, results, slotWrites, ret, notRetrieve>>

\* errgroup, after the closure returned: the first error is recorded and
\* cancels the group's context; the pool slot is released.
WExit(i) ==
    LET w == workers[i] IN
    /\ w.pc = "return"
    /\ IF w.err # NoError /\ gerr = NoError
         THEN gerr' = <<Key(decls[i]), w.err>> /\ ctxDone' = TRUE
         ELSE UNCHANGED <<gerr, ctxDone>>
    /\ running' = running - 1
    /\ workers' = [workers EXCEPT ![i].pc = "exited"]
    /\ UNCHANGED <<decls, opts, srvK, srvFinal, srvHits, fileStatus, pcMain, idx, cache,
                   parentCancelled, results, slotWrites, ret, notRetrieve>>

-----------------------------------------------------------------------------
\* Retrieve: its own goroutine

\* if len(decls) == 0 { return nil, nil }; otherwise enter the loop.
REntry ==
    /\ pcMain = "entry"
    /\ IF N = 0
         THEN pcMain' = "done" /\ ret' = [results |-> <<>>, err |-> NoError]
         ELSE pcMain' = "loop" /\ UNCHANGED ret
    /\ UNCHANGED <<decls, opts, srvK, srvFinal, srvHits, fileStatus, idx, cache, workers,
                   running, gerr, ctxDone, parentCancelled, results, slotWrites, notRetrieve>>

\* After the last declaration the loop ends and g.Wait() is called.
AfterDecl(i) == IF i + 1 > N THEN "wait" ELSE "loop"

\* The cache lookup of the loop body; a hit fills the slot and continues.
CacheHit(d) == ~opts.NoCache /\ cache[CacheKey(d)] # NoEntry

\* Mutant: a cache hit fills the slot and falls through to g.Go.
RCheckNoContinue ==
    /\ pcMain = "loop"
    /\ IF CacheHit(decls[idx])
         THEN /\ results' = [results EXCEPT ![idx] =
                               MkResult(decls[idx], cache[CacheKey(decls[idx])])]
              /\ slotWrites' = [slotWrites EXCEPT ![idx] = Append(@, "loop")]
              /\ pcMain' = "go"
              /\ UNCHANGED idx
         ELSE /\ pcMain' = "go"
              /\ UNCHANGED <<results, slotWrites, idx>>
    /\ UNCHANGED <<decls, opts, srvK, srvFinal, srvHits, fileStatus, cache, workers,
                   running, gerr, ctxDone, parentCancelled, ret, notRetrieve>>

RCheck ==
    /\ pcMain = "loop"
    /\ IF CacheHit(decls[idx])
         THEN /\ results' = [results EXCEPT ![idx] =
                               MkResult(decls[idx], cache[CacheKey(decls[idx])])]
              /\ slotWrites' = [slotWrites EXCEPT ![idx] = Append(@, "loop")]
              /\ idx' = idx + 1
              /\ pcMain' = AfterDecl(idx)
         ELSE /\ pcMain' = "go"
              /\ UNCHANGED <<results, slotWrites, idx>>
    /\ UNCHANGED <<decls, opts, srvK, srvFinal, srvHits, fileStatus, cache, workers,
                   running, gerr, ctxDone, parentCancelled, ret, notRetrieve>>

\* g.SetLimit(opts.Concurrency): a negative limit is no limit; g.Go blocks
\* until a slot is free.
SlotFree == opts.Concurrency < 0 \/ running < opts.Concurrency

RGo ==
    /\ pcMain = "go"
    /\ SlotFree
    /\ workers' = [workers EXCEPT ![idx].pc = "start"]
    /\ running' = running + 1
    /\ idx' = idx + 1
    /\ pcMain' = AfterDecl(idx)
    /\ UNCHANGED <<decls, opts, srvK, srvFinal, srvHits, fileStatus, cache,
                   gerr, ctxDone, parentCancelled, results, slotWrites, ret, notRetrieve>>

\* g.Wait() returns once every goroutine has exited.
RWait ==
    /\ pcMain = "wait"
    /\ running = 0
    /\ pcMain' = "done"
    /\ ret' = IF gerr # NoError THEN [results |-> NoResult, err |-> gerr]
              ELSE [results |-> results, err |-> NoError]
    /\ ctxDone' = TRUE
    /\ UNCHANGED <<decls, opts, srvK, srvFinal, srvHits, fileStatus, idx, cache, workers,
                   running, gerr, parentCancelled, results, slotWrites, notRetrieve>>

\* The caller cancels the context, before or while Retrieve runs.
CancelCtx ==
    /\ pcMain # "done"
    /\ ~parentCancelled
    /\ parentCancelled' = TRUE
    /\ ctxDone' = TRUE
    /\ UNCHANGED <<decls, opts, srvK, srvFinal, srvHits, fileStatus, pcMain, idx, cache,
                   workers, running, gerr, results, slotWrites, ret, notRetrieve>>

-----------------------------------------------------------------------------
\* Language registry (language.Languages) and the parser's data

XSchemaBaseURL == "https://xschema.dev/schemas/"
NoLang == "nil"
NoParseError == [kind |-> "nil"]
Languages == {"typescript", "python"}

\* Language.SchemaExt of each registered language.
SchemaExt(lang) == IF lang = "typescript" THEN "ts.jsonc" ELSE "py.jsonc"

\* A $schema URL is a pair <<prefix, rest>>.
\* IsXSchemaURL: strings.HasPrefix(url, XSchemaBaseURL)
IsXSchemaURL(url) == url[1] = XSchemaBaseURL

\* BySchemaURL: the language whose SchemaExt follows the base URL, or nil.
BySchemaURL(url) ==
    IF ~IsXSchemaURL(url) THEN NoLang
    ELSE IF \E l \in Languages : SchemaExt(l) = url[2]
           THEN CHOOSE l \in Languages : SchemaExt(l) = url[2]
           ELSE NoLang

\* ByName
ByName(name) == IF name \in Languages THEN name ELSE NoLang

\* The documents a project may hold.  A file is its path <<dir, stem, ext>> and
\* its content: whether it is well-formed JSONC, its $schema, its namespace
\* override and its schema entries.
SchemaURLs ==
    {<<XSchemaBaseURL, "ts.jsonc">>, <<XSchemaBaseURL, "py.jsonc">>,
     <<XSchemaBaseURL, "unknown.jsonc">>, <<"https://json.schemastore.org/", "tsconfig.json">>}

IDs == {"User", "Post"}
EntryLists == {<<"User">>, <<"Post">>, <<"User", "Post">>, <<"User", "User">>}
\* Filename stem and namespace override of a config.
Namings == {<<"users", "">>, <<"posts", "">>, <<"users", "shared">>, <<"users", "posts">>}

\* SchemaEntryRaw
MkEntry(id) ==
    [ID |-> id, SourceType |-> SourceJSON, Source |-> <<"inline", id>>, Adapter |-> "zod"]

MkFile(i, stem, wellFormed, url, ns, ids) ==
    [Path |-> <<i, stem, "jsonc">>, WellFormed |-> wellFormed, Schema |-> url,
     Namespace |-> ns, Schemas |-> [k \in 1..Len(ids) |-> MkEntry(ids[k])]]

\* Content that does not make a config is not varied further.
FileChoices(i) ==
    {MkFile(i, nm[1], TRUE, u, nm[2], ids) :
        nm \in Namings, ids \in EntryLists,
        u \in {v \in SchemaURLs : BySchemaURL(v) # NoLang}}
    \cup {MkFile(i, "users", TRUE, u, "", << >>) :
            u \in {v \in SchemaURLs : BySchemaURL(v) = NoLang}}
    \cup {MkFile(i, "users", FALSE, <<"", "">>, "", << >>)}

\* namespace = strings.TrimSuffix(base, ext), base = filepath.Base(path)
Stem(path) == path[2]

\* Mutant: the namespace is always the filename stem.
parseConfigFileStemOnly(f) ==
    IF ~f.WellFormed THEN [kind |-> "error", err |-> "InvalidJSON"]
    ELSE IF ~IsXSchemaURL(f.Schema) THEN [kind |-> "nil"]
    ELSE IF BySchemaURL(f.Schema) = NoLang
           THEN [kind |-> "error", err |-> <<"UnknownLanguage", f.Schema>>]
    ELSE [kind |-> "config",
          config |-> [Path |-> f.Path,
                      Namespace |-> Stem(f.Path),
                      Language |-> BySchemaURL(f.Schema),
                      Schemas |-> f.Schemas]]

\* parseConfigFile: an error, nil (not an xschema config) or the ConfigFile.
parseConfigFile(f) ==
    IF ~f.WellFormed THEN [kind |-> "error", err |-> "InvalidJSON"]
    ELSE IF ~IsXSchemaURL(f.Schema) THEN [kind |-> "nil"]
    ELSE IF BySchemaURL(f.Schema) = NoLang
           THEN [kind |-> "error", err |-> <<"UnknownLanguage", f.Schema>>]
    ELSE [kind |-> "config",
          config |-> [Path |-> f.Path,
                      Namespace |-> IF f.Namespace = "" THEN Stem(f.Path) ELSE f.Namespace,
                      Language |-> BySchemaURL(f.Schema),
                      Schemas |-> f.Schemas]]

\* Mutant: a namespace is seen as a whole, whatever the id.
SeenKeyNamespaceOnly(config, schema) == <<config.Namespace, "">>

\* Mutant: seen ids are tracked per config file instead of per namespace.
SeenKeyPerFile(config, schema) == <<config.Path, schema.ID>>

\* The key of seenIDs: namespace, then id.
SeenKey(config, schema) == <<config.Namespace, schema.ID>>

\* The entries of the configs in loop order, each with its config.
RECURSIVE Entries(_)
Entries(cs) ==
    IF cs = << >> THEN << >>
    ELSE [k \in 1..Len(cs[1].Schemas) |-> [config |-> cs[1], schema |-> cs[1].Schemas[k]]]
         \o Entries(Tail(cs))

\* mergeDeclarations: the loop over the entries with seenIDs (a set of
\* <<key, path>>) and the declarations built so far.
RECURSIVE MergeLoop(_, _, _)
MergeLoop(es, seenIDs, declarations) ==
    IF es = << >> THEN [declarations |-> declarations, err |-> NoParseError]
    ELSE LET config == es[1].config
             schema == es[1].schema
             key == SeenKey(config, schema)
         IN IF \E sp \in seenIDs : sp[1] = key
              THEN [declarations |-> NoResult,
                    err |-> [kind |-> "DuplicateID", id |-> schema.ID,
                             namespace |-> config.Namespace,
                             existingPath |-> (CHOOSE sp \in seenIDs : sp[1] = key)[2],
                             path |-> config.Path]]
              ELSE MergeLoop(Tail(es),
                             {sp \in seenIDs : sp[1] # key} \cup {<<key, config.Path>>},
                             Append(declarations,
                                    [Namespace |-> config.Namespace, ID |-> schema.ID,
                                     SourceType |-> schema.SourceType,
                                     Source |-> schema.Source, Adapter |-> schema.Adapter,
                                     ConfigPath |-> config.Path]))

mergeDeclarations(cs) == MergeLoop(Entries(cs), {}, << >>)

\* Mutant: the comparison of the language-consistency check is inverted.
LanguageDiffersInverted(detected, lang) == detected = lang

\* detectedLang.Name != config.Language.Name
LanguageDiffers(detected, lang) == detected # lang

-----------------------------------------------------------------------------
\* Parse

\* Mutant: the context is never seen as done.
ParseCtxNeverDone == FALSE

\* case <-ctx.Done():
ParseCtxDone == parseCancelled

\* getConfigFiles: git ls-files runs under the context and the directory
\* walk checks the context at every entry, so with a context that is done no
\* file list comes back and Parse returns the wrapped context error.
PDiscover ==
    /\ pcParse = "discover"
    /\ IF ParseCtxDone
         THEN /\ pcParse' = "done"
              /\ parseRet' = [result |-> NoResult, err |-> [kind |-> "Cancelled"]]
         ELSE /\ pcParse' = "loop"
              /\ UNCHANGED parseRet
    /\ UNCHANGED <<files, langFilter, fileIdx, configs, detectedLang, languageConflict,
                   parseCancelled, filesRead, notParse>>

\* One turn of the loop over the files: the cancellation check, then
\* parseConfigFile and the language bookkeeping.
PFile ==
    /\ pcParse = "loop"
    /\ fileIdx <= Len(files)
    /\ IF ParseCtxDone
         THEN /\ pcParse' = "done"
              /\ parseRet' = [result |-> NoResult, err |-> [kind |-> "Cancelled"]]
              /\ UNCHANGED <<fileIdx, configs, detectedLang, languageConflict, filesRead>>
         ELSE LET r == parseConfigFile(files[fileIdx]) IN
              /\ filesRead' = filesRead \cup {fileIdx}
              /\ fileIdx' = fileIdx + 1
              /\ IF r.kind = "config"
                   THEN /\ detectedLang' = IF detectedLang = NoLang
                                             THEN r.config.Language ELSE detectedLang
                        /\ languageConflict' =
                             (languageConflict \/
                                (detectedLang # NoLang
                                   /\ LanguageDiffers(detectedLang, r.config.Language)))
                        /\ configs' = Append(configs, r.config)
                   ELSE UNCHANGED <<configs, detectedLang, languageConflict>>
              /\ UNCHANGED <<pcParse, parseRet>>
    /\ UNCHANGED <<files, langFilter, parseCancelled, notParse>>

\* The languages of the configs, for the error message.
LangsOf(cs) == {cs[k].Language : k \in 1..Len(cs)}

FilterByLang(cs, lang) == SelectSeq(cs, LAMBDA c : c.Language = lang)

ParseFail(e) == [result |-> NoResult, err |-> e]

\* After the loop: no configs, the language filter or conflict, the merge.
PFinish ==
    /\ pcParse = "loop"
    /\ fileIdx > Len(files)
    /\ pcParse' = "done"
    /\ IF Len(configs) = 0
         THEN /\ parseRet' = ParseFail([kind |-> "NoConfigs"])
              /\ UNCHANGED <<configs, detectedLang>>
       ELSE IF languageConflict /\ langFilter = ""
         THEN /\ parseRet' = ParseFail([kind |-> "AmbiguousLanguage",
                                         langs |-> LangsOf(configs)])
              /\ UNCHANGED <<configs, detectedLang>>
       ELSE LET filtered == IF languageConflict
                              THEN FilterByLang(configs, langFilter) ELSE configs
                lang == IF languageConflict THEN ByName(langFilter) ELSE detectedLang
                merged == mergeDeclarations(filtered)
            IN /\ configs' = filtered
               /\ detectedLang' = lang
               /\ parseRet' =
                    IF lang = NoLang
                      THEN ParseFail([kind |-> "UnknownLanguage", name |-> langFilter])
                    ELSE IF merged.err.kind # "nil" THEN ParseFail(merged.err)
                    ELSE [result |-> [Language |-> lang, Configs |-> filtered,
                                      Declarations |-> merged.declarations],
                          err |-> NoParseError]
    /\ UNCHANGED <<files, langFilter, fileIdx, languageConflict, parseCancelled,
                   filesRead, notParse>>

\* The caller cancels the context.
PCancel ==
    /\ pcParse \in {"discover", "loop"}
    /\ ~parseCancelled
    /\ parseCancelled' = TRUE
    /\ UNCHANGED <<files, langFilter, pcParse, fileIdx, configs, detectedLang,
                   languageConflict, filesRead, parseRet, notParse>>

-----------------------------------------------------------------------------
\* Generator

\* Adapter identifiers are strings, written as sequences of letter codes so
\* that sort.Strings can be computed: "a", "ab", "b".
AdapterNames == {<<1>>, <<1, 2>>, <<2>>}

\* Byte-wise lexicographic order of strings, as sort.Strings uses it.
RECURSIVE StrLess(_, _)
StrLess(a, b) ==
    IF b = << >> THEN FALSE
    ELSE IF a = << >> THEN TRUE
    ELSE IF a[1] # b[1] THEN a[1] < b[1]
    ELSE StrLess(Tail(a), Tail(b))

\* The retrieved schema at position i of GenerateAll's input.
MkRetrieved(i, adapter) ==
    [Namespace |-> "ns", ID |-> i, Schema |-> <<"inline", i>>, Adapter |-> adapter]

SchemaLists ==
    UNION {{[i \in 1..n |-> MkRetrieved(i, a[i])] : a \in [1..n -> AdapterNames]}
           : n \in 0..MaxSchemas}

AdaptersIn(schemas) == {schemas[i].Adapter : i \in 1..Len(schemas)}

\* GroupByAdapter: adapter -> its schemas, in input order.
GroupByAdapter(schemas) ==
    [a \in AdaptersIn(schemas) |-> SelectSeq(schemas, LAMBDA x : x.Adapter = a)]

\* Ascending sequence of the strings of a set.
RECURSIVE SortStrings(_)
SortStrings(S) ==
    IF S = {} THEN << >>
    ELSE LET m == CHOOSE x \in S : \A y \in S : x = y \/ StrLess(x, y)
         IN <<m>> \o SortStrings(S \ {m})

\* Mutant: the keys are used in map iteration order, here the descending one.
RECURSIVE KeysDescending(_)
KeysDescending(groups) ==
    IF DOMAIN groups = {} THEN << >>
    ELSE LET m == CHOOSE x \in DOMAIN groups :
                     \A y \in DOMAIN groups : x = y \/ StrLess(y, x)
         IN <<m>> \o KeysDescending([a \in DOMAIN groups \ {m} |-> groups[a]])

\* SortedAdapters: the keys of the groups, sorted.
SortedAdapters(groups) == SortStrings(DOMAIN groups)

\* getRunner: the language must be registered.
RunnerLanguages == {"typescript", "python", "rust"}

\* What an adapter subprocess may do with its batch.
Behaviours == {"positional", "short", "nokeys", "exit1", "garbage"}

\* The GenerateOutput an adapter computes for one GenerateInput.
Convert(in) ==
    [Namespace |-> in.Namespace, ID |-> in.ID, Schema |-> <<"code", in.Schema>>,
     Type |-> <<"type", in.Schema>>, Imports |-> <<"import">>]

\* GenerateInput: what is marshalled to the adapter's stdin for one schema.
AdapterInput(s) == [Namespace |-> s.Namespace, ID |-> s.ID, Schema |-> s.Schema]

\* The array json.Unmarshal yields from the adapter's stdout: one item per
\* input ("positional"), the last item missing ("short"), or items without
\* namespace and id, which unmarshal to empty strings ("nokeys").
Stdout(batch, behaviour) ==
    LET ins == [k \in 1..Len(batch) |-> AdapterInput(batch[k])] IN
    CASE behaviour = "short" -> [k \in 1..(Len(ins) - 1) |-> Convert(ins[k])]
      [] behaviour = "nokeys" ->
           [k \in 1..Len(ins) |-> [Convert(ins[k]) EXCEPT !.Namespace = "", !.ID = ""]]
      [] OTHER -> [k \in 1..Len(ins) |-> Convert(ins[k])]

\* What the adapter subprocess wrote to its stderr (stderr.String()).
Stderr(adapter) == <<"stderr of", adapter>>

\* Mutant: the exit status of the subprocess is not looked at.
GenerateIgnoresExit(input) ==
    IF ByName(input.Language) = NoLang
      THEN [outputs |-> NoResult, err |-> <<"UnsupportedLanguage", input.Language>>]
    ELSE IF ~runnerFound
      THEN [outputs |-> NoResult, err |-> <<"RunnerNotFound", input.Language>>]
    ELSE IF adapterBehaviour[input.Adapter] = "garbage"
      THEN [outputs |-> NoResult, err |-> <<"InvalidOutput", input.Adapter>>]
    ELSE [outputs |-> Stdout(input.Schemas, adapterBehaviour[input.Adapter]),
          err |-> NoError]

\* Generate: runner lookup, subprocess, exit status, unmarshalling of stdout.
Generate(input) ==
    IF ByName(input.Language) = NoLang
      THEN [outputs |-> NoResult, err |-> <<"UnsupportedLanguage", input.Language>>]
    ELSE IF ~runnerFound
      THEN [outputs |-> NoResult, err |-> <<"RunnerNotFound", input.Language>>]
    ELSE IF adapterBehaviour[input.Adapter] = "exit1"
      THEN [outputs |-> NoResult, err |-> <<"AdapterFailed", input.Adapter, Stderr(input.Adapter)>>]
    ELSE IF adapterBehaviour[input.Adapter] = "garbage"
      THEN [outputs |-> NoResult, err |-> <<"InvalidOutput", input.Adapter>>]
    ELSE [outputs |-> Stdout(input.Schemas, adapterBehaviour[input.Adapter]),
          err |-> NoError]

\* GenerateAll: grouping and sorting.
GStart ==
    /\ pcGen = "start"
    /\ pcGen' = "loop"
    /\ genK' = 1
    /\ UNCHANGED <<genIn, genLang, runnerFound, adapterBehaviour, allOutputs, genCalls,
                   genRet, notGenerate>>

\* GenerateAll: one turn of the loop over the sorted adapters.
GGroup ==
    LET groups == GroupByAdapter(genIn)
        adapters == SortedAdapters(groups)
    IN
    /\ pcGen = "loop"
    /\ genK <= Len(adapters)
    /\ LET batch == [Adapter |-> adapters[genK], Language |-> genLang,
                     Schemas |-> groups[adapters[genK]]]
           r == Generate(batch)
       IN /\ genCalls' = IF ByName(genLang) # NoLang /\ runnerFound
                           THEN Append(genCalls, [Adapter |-> batch.Adapter,
                                                  Schemas |-> batch.Schemas])
                           ELSE genCalls
          /\ IF r.err # NoError
               THEN /\ pcGen' = "done"
                    /\ genRet' = [outputs |-> NoResult, err |-> r.err]
                    /\ UNCHANGED <<allOutputs, genK>>
               ELSE /\ allOutputs' = allOutputs \o r.outputs
                    /\ genK' = genK + 1
                    /\ UNCHANGED <<pcGen, genRet>>
    /\ UNCHANGED <<genIn, genLang, runnerFound, adapterBehaviour, notGenerate>>

\* GenerateAll: return allOutputs, nil
GReturn ==
    /\ pcGen = "loop"
    /\ genK > Len(SortedAdapters(GroupByAdapter(genIn)))
    /\ pcGen' = "done"
    /\ genRet' = [outputs |-> allOutputs, err |-> NoError]
    /\ UNCHANGED <<genIn, genLang, runnerFound, adapterBehaviour, genK, allOutputs,
                   genCalls, notGenerate>>

-----------------------------------------------------------------------------
\* Client injection: injector.InjectClient and the injection callbacks of
\* the language registry.  A text is a sequence of tokens, each standing for
\* the characters it spells: every punctuation character the code inspects
\* is a token of its own, a word is one token.

Whitespace == {" ", "\n"}
MinOf(S) == CHOOSE x \in S : \A y \in S : x <= y
MaxOf(S) == CHOOSE x \in S : \A y \in S : x >= y

\* strings.HasPrefix, strings.TrimPrefix, strings.Contains, strings.TrimSpace
HasPrefix(s, prefix) == Len(s) >= Len(prefix) /\ SubSeq(s, 1, Len(prefix)) = prefix
TrimPrefix(s, prefix) ==
    IF HasPrefix(s, prefix) THEN SubSeq(s, Len(prefix) + 1, Len(s)) ELSE s
Contains(s, substr) ==
    \E i \in 1..(Len(s) + 1) :
        /\ i + Len(substr) - 1 <= Len(s)
        /\ SubSeq(s, i, i + Len(substr) - 1) = substr
TrimSpace(s) ==
    LET solid == {i \in 1..Len(s) : s[i] \notin Whitespace}
    IN IF solid = {} THEN << >> ELSE SubSeq(s, MinOf(solid), MaxOf(solid))

\* strings.ReplaceAll for a one-character old and new.
ReplaceAll(s, old, new) == [i \in 1..Len(s) |-> IF s[i] = old THEN new ELSE s[i]]

\* filepath.Base of a path that does not end in a separator.
Base(path) ==
    LET seps == {i \in 1..Len(path) : path[i] = "/"}
    IN IF seps = {} THEN path ELSE SubSeq(path, MaxOf(seps) + 1, Len(path))

\* strings.TrimSuffix(name, filepath.Ext(name)): cut from the last dot.
TrimExt(name) ==
    LET dots == {i \in 1..Len(name) : name[i] = "."}
    IN IF dots = {} THEN name ELSE SubSeq(name, 1, MaxOf(dots) - 1)

\* Language.OutputFile
OutputFile(lang) ==
    IF lang = "typescript" THEN <<"xschema", ".", "gen", ".", "ts">>
    ELSE <<"__init__", ".", "py">>

\* Language.ImportPattern: the keywords that open an import line.
ImportKeywords(lang) ==
    IF lang = "typescript" THEN {"import"} ELSE {"import", "from"}

buildTSSchemasImport(importPath) ==
    <<"import", " ", "{", " ", "schemas", " ", "}", " ", "from", " ", "\"">>
        \o importPath \o <<"\"", ";">>

buildPySchemasImport(importPath) ==
    LET module == TrimPrefix(ReplaceAll(importPath, "/", "."), <<".">>)
    IN <<"from", " ">> \o module \o <<" ", "import", " ", "schemas">>

\* Language.BuildSchemasImport
BuildSchemasImport(lang, importPath) ==
    IF lang = "typescript" THEN buildTSSchemasImport(importPath)
    ELSE buildPySchemasImport(importPath)

injectSchemasKeyBrace(configContent) ==
    LET opens == {i \in 1..Len(configContent) : configContent[i] = "{"} IN
    IF opens = {} THEN configContent
    ELSE LET openIdx == MinOf(opens) IN
         IF Len(configContent) < openIdx + 1 THEN <<"{", " ", "schemas", " ", "}">>
         ELSE LET inner == SubSeq(configContent, openIdx + 1, Len(configContent) - 1)
                  innerTrimmed == TrimSpace(inner)
              IN IF /\ HasPrefix(innerTrimmed, <<"schemas">>)
                    /\ \/ Len(innerTrimmed) = 1
                       \/ HasPrefix(Tail(innerTrimmed), <<",">>)
                       \/ HasPrefix(Tail(innerTrimmed), <<"}">>)
                   THEN configContent
                 ELSE IF HasPrefix(innerTrimmed, <<"schemas", ":">>)
                   THEN configContent
                 ELSE IF \/ HasPrefix(innerTrimmed, <<"\"", "schemas", "\"", ":">>)
                         \/ HasPrefix(innerTrimmed, <<"'", "schemas", "'", ":">>)
                   THEN configContent
                 ELSE IF innerTrimmed = << >>
                   THEN <<"{", " ", "schemas", " ", "}">>
                 ELSE <<"{", " ", "schemas", ",", " ">> \o inner \o <<" ", "}">>

\* The factory names of the two patterns injectSchemasIntoConfig tries, in order.
FactoryNames == <<"createXSchemaClient", "create_xschema_client">>

\* First position at or after i that holds no whitespace (\s*).
SkipSpace(s, i) ==
    MinOf({j \in i..Len(s) : s[j] \notin Whitespace} \cup {Len(s) + 1})

\* name\s*\(\s*(\{[^}]*\})\s*\) matched at position p: the bounds of the
\* captured object literal, or << >>.
MatchFactoryAt(content, name, p) ==
    IF content[p] # name THEN << >>
    ELSE LET a == SkipSpace(content, p + 1) IN
    IF a > Len(content) \/ content[a] # "(" THEN << >>
    ELSE LET b == SkipSpace(content, a + 1) IN
    IF b > Len(content) \/ content[b] # "{" THEN << >>
    ELSE LET closes == {j \in (b + 1)..Len(content) : content[j] = "}"} IN
    IF closes = {} THEN << >>
    ELSE LET c == MinOf(closes)
             d == SkipSpace(content, c + 1)
         IN IF d > Len(content) \/ content[d] # ")" THEN << >> ELSE <<b, c>>

\* re.FindStringSubmatchIndex: the leftmost match.
FindFactory(content, name) ==
    LET hits == {p \in 1..Len(content) : MatchFactoryAt(content, name, p) # << >>}
    IN IF hits = {} THEN << >> ELSE MatchFactoryAt(content, name, MinOf(hits))

injectSchemasIntoConfig(content, lang) ==
    LET first == FindFactory(content, FactoryNames[1])
        matches == IF first # << >> THEN first ELSE FindFactory(content, FactoryNames[2])
    IN IF matches = << >> THEN [content |-> content, injected |-> FALSE]
       ELSE LET configContent == SubSeq(content, matches[1], matches[2])
                newConfig == injectSchemasKeyBrace(configContent)
            IN IF newConfig = configContent
                 THEN [content |-> content, injected |-> TRUE]
                 ELSE [content |-> SubSeq(content, 1, matches[1] - 1) \o newConfig
                                     \o SubSeq(content, matches[2] + 1, Len(content)),
                       injected |-> TRUE]

\* Language.ImportPattern matched at position p: the keyword at the start of
\* a line, whitespace, then the rest of the line.  The end of the match, or 0.
ImportMatchEnd(content, lang, p) ==
    IF ~ /\ (p = 1 \/ content[p - 1] = "\n")
         /\ content[p] \in ImportKeywords(lang)
         /\ p < Len(content)
         /\ content[p + 1] \in Whitespace
      THEN 0
    ELSE LET w == SkipSpace(content, p + 1)
             newlines == {j \in w..Len(content) : content[j] = "\n"}
         IN IF newlines = {} THEN Len(content) ELSE MinOf(newlines) - 1

\* re.FindAllStringIndex: the end of the last of the successive matches.
RECURSIVE LastImportEnd(_, _, _, _)
LastImportEnd(content, lang, from, last) ==
    LET hits == {p \in from..Len(content) : ImportMatchEnd(content, lang, p) > 0}
    IN IF hits = {} THEN last
       ELSE LET e == ImportMatchEnd(content, lang, MinOf(hits))
            IN LastImportEnd(content, lang, e + 1, e)

injectSchemasImport(content, importPath, lang) ==
    LET normalizedPath == TrimPrefix(importPath, <<".", "/">>) IN
    IF Contains(content, importPath) \/ Contains(content, normalizedPath) THEN content
    ELSE LET importLine == BuildSchemasImport(lang, importPath)
             insertPos == LastImportEnd(content, lang, 1, 0)
         IN IF insertPos = 0 THEN importLine \o <<"\n">> \o content
            ELSE SubSeq(content, 1, insertPos) \o <<"\n">> \o importLine
                     \o SubSeq(content, insertPos + 1, Len(content))

\* InjectClient: read the client file, inject the key, inject the import,
\* write the file back when the text changed.
InjectClient ==
    /\ Len(injHist) < MaxRuns
    /\ IF ~clientFile.exists
         THEN /\ injHist' = Append(injHist, [err |-> "read", content |-> << >>, wrote |-> FALSE])
              /\ UNCHANGED <<clientFile, injWrites>>
         ELSE LET content == clientFile.content
                  importPath == <<".", "/">> \o Base(injOutDir) \o <<"/">>
                                    \o TrimExt(OutputFile(injLang))
                  keyed == injectSchemasIntoConfig(content, injLang)
                  modified == injectSchemasImport(keyed.content, importPath, injLang)
              IN /\ clientFile' = [clientFile EXCEPT !.content = modified]
                 /\ injWrites' = IF modified # content THEN injWrites + 1 ELSE injWrites
                 /\ injHist' = Append(injHist, [err |-> "nil", content |-> modified,
                                                wrote |-> modified # content])
    /\ UNCHANGED <<injLang, injOutDir, notInject>>

\* Client files a project may hold: an optional line ahead of an optional
\* factory call.
Headers ==
    { << >>,
      <<"import", " ", "x", "\n">>,
      <<"from", " ", "x", " ", "import", " ", "y", "\n">>,
      <<"import", " ", "{", "\n", "a", "\n", "}", " ", "from", " ", "\"", "x", "\"", "\n">>,
      <<"#", " ", ".", "xschema", "/", "__init__", "\n">>,
      buildTSSchemasImport(<<".", "/", ".", "xschema", "/", "xschema", ".", "gen">>) \o <<"\n">> }
Configs ==
    { <<"{", "}">>,
      <<"{", " ", "}">>,
      <<"{", "schemas", "}">>,
      <<"{", " ", "schemas", ",", " ", "x", " ", "}">>,
      <<"{", "schemas", ":", " ", "schemas", "}">>,
      <<"{", "\"", "schemas", "\"", ":", " ", "s", "}">>,
      <<"{", "'", "schemas", "'", ":", " ", "s", "}">>,
      <<"{", " ", "x", ":", " ", "1", " ", "}">>,
      <<"{", "x", ",", " ", "schemas", "}">>,
      <<"{", "x", ":", " ", "{", "}", "}">> }
Calls ==
    {<<"x">>}
    \cup {<<FactoryNames[n], "(", "cfg", ")">> : n \in {1, 2}}
    \cup {<<FactoryNames[n], "(", "{", "}", ")", "\n", FactoryNames[n], "(", "{", "}", ")">> :
             n \in {1, 2}}
    \cup {<<FactoryNames[n], "(">> \o c \o <<")">> : n \in {1, 2}, c \in Configs}
    \cup {<<FactoryNames[n], " ", "(", "\n">> \o c \o <<" ", ")">> : n \in {1, 2}, c \in Configs}
ClientTexts == {h \o c : h \in Headers, c \in Calls}
OutDirs == {<<".", "xschema">>, <<"src", "/", "gen">>}

-----------------------------------------------------------------------------
\* Import merging: MergeTSImports and MergePyImports.  An import string is
\* the sequence of its words and punctuation marks, as the client text is.

\* The words and marks of import strings in byte order, the order of
\* slices.Sort and sort.Strings.
ByteOrder ==
    <<" ", "\"", "'", "*", ",", "BaseModel", "Field", "React", "UUID", "ZodError",
      "as", "bar", "foo", "from", "import", "json", "pydantic", "react", "type",
      "uuid", "z", "zod", "{", "}">>
Code(s) ==
    [i \in 1..Len(s) |-> CHOOSE k \in 1..Len(ByteOrder) : ByteOrder[k] = s[i]]
TextLess(a, b) == StrLess(Code(a), Code(b))

\* slices.Sort / sort.Strings, and slices.Compact
SortTexts(s) == SortSeq(s, TextLess)
RECURSIVE Compact(_)
Compact(s) ==
    IF Len(s) <= 1 THEN s
    ELSE IF s[1] = s[2] THEN Compact(Tail(s))
    ELSE <<s[1]>> \o Compact(Tail(s))

\* strings.Split and strings.Join
RECURSIVE Split(_, _)
Split(s, sep) ==
    LET hits == {i \in 1..Len(s) : s[i] = sep}
    IN IF hits = {} THEN <<s>>
       ELSE <<SubSeq(s, 1, MinOf(hits) - 1)>>
                \o Split(SubSeq(s, MinOf(hits) + 1, Len(s)), sep)
RECURSIVE Join(_, _)
Join(elems, sep) ==
    IF elems = << >> THEN << >>
    ELSE IF Len(elems) = 1 THEN elems[1]
    ELSE elems[1] \o sep \o Join(Tail(elems), sep)

\* The names of a specifier list: split at the commas, trimmed, empty ones
\* left out.
SplitNames(list) ==
    LET parts == Split(list, ",")
        trimmed == [i \in 1..Len(parts) |-> TrimSpace(parts[i])]
    IN SelectSeq(trimmed, LAMBDA n : n # << >>)

Quotes == {"\"", "'"}
Marks == Whitespace \cup Quotes \cup {"{", "}", ",", "*"}
NoMatch == [matched |-> FALSE]

\* ['"]([^'"]+)['"] matched at position e: the captured source, or << >>.
QuotedAt(s, e) ==
    IF e > Len(s) \/ s[e] \notin Quotes THEN << >>
    ELSE LET closing == {j \in (e + 1)..Len(s) : s[j] \in Quotes}
         IN IF closing = {} THEN << >> ELSE SubSeq(s, e + 1, MinOf(closing) - 1)

\* import\s*\{([^}]+)\}\s*from\s*['"]([^'"]+)['"] matched at position p
NamedAt(s, p) ==
    IF s[p] # "import" THEN NoMatch
    ELSE LET a == SkipSpace(s, p + 1) IN
    IF a > Len(s) \/ s[a] # "{" THEN NoMatch
    ELSE LET closes == {j \in (a + 1)..Len(s) : s[j] = "}"} IN
    IF closes = {} \/ MinOf(closes \cup {Len(s) + 1}) = a + 1 THEN NoMatch
    ELSE LET c == MinOf(closes)
             d == SkipSpace(s, c + 1)
         IN
    IF d > Len(s) \/ s[d] # "from" THEN NoMatch
    ELSE LET source == QuotedAt(s, SkipSpace(s, d + 1)) IN
    IF source = << >> THEN NoMatch
    ELSE [matched |-> TRUE, names |-> SubSeq(s, a + 1, c - 1), source |-> source]

\* import\s+(\w+)\s+from\s*['"]([^'"]+)['"] matched at position p
DefaultAt(s, p) ==
    IF s[p] # "import" \/ p + 1 > Len(s) \/ s[p + 1] \notin Whitespace THEN NoMatch
    ELSE LET a == SkipSpace(s, p + 1) IN
    IF a + 1 > Len(s) \/ s[a] \in Marks \/ s[a + 1] \notin Whitespace THEN NoMatch
    ELSE LET b == SkipSpace(s, a + 1) IN
    IF b > Len(s) \/ s[b] # "from" THEN NoMatch
    ELSE LET source == QuotedAt(s, SkipSpace(s, b + 1)) IN
    IF source = << >> THEN NoMatch
    ELSE [matched |-> TRUE, name |-> <<s[a]>>, source |-> source]

\* import\s*['"]([^'"]+)['"] matched at position p
SideEffectAt(s, p) ==
    IF s[p] # "import" THEN NoMatch
    ELSE LET source == QuotedAt(s, SkipSpace(s, p + 1)) IN
    IF source = << >> THEN NoMatch
    ELSE [matched |-> TRUE, source |-> source]


\* from\s+(\S+)\s+import\s+(.+) matched at position p
FromAt(s, p) ==
    IF s[p] # "from" \/ p + 1 > Len(s) \/ s[p + 1] \notin Whitespace THEN NoMatch
    ELSE LET a == SkipSpace(s, p + 1)
             b == MinOf({j \in a..Len(s) : s[j] \in Whitespace} \cup {Len(s) + 1})
             c == SkipSpace(s, b)
         IN
    IF a > Len(s) \/ b > Len(s) \/ c + 1 > Len(s) THEN NoMatch
    ELSE IF s[c] # "import" \/ s[c + 1] \notin Whitespace THEN NoMatch
    ELSE LET d == SkipSpace(s, c + 1) IN
    IF d > Len(s) THEN NoMatch
    ELSE [matched |-> TRUE, module |-> SubSeq(s, a, b - 1),
          names |-> SubSeq(s, d, MinOf({j \in d..Len(s) : s[j] = "\n"} \cup {Len(s) + 1}) - 1)]

\* ^import\s+(\S+) matched at position p
ImportAt(s, p) ==
    IF p # 1 \/ s[p] # "import" \/ p + 1 > Len(s) \/ s[p + 1] \notin Whitespace THEN NoMatch
    ELSE LET a == SkipSpace(s, p + 1)
             b == MinOf({j \in a..Len(s) : s[j] \in Whitespace} \cup {Len(s) + 1})
         IN IF a > Len(s) THEN NoMatch
            ELSE [matched |-> TRUE, module |-> SubSeq(s, a, b - 1)]

\* One of the import patterns matched at position p.
MatchAt(re, s, p) ==
    CASE re = "namedRe" -> NamedAt(s, p)
      [] re = "defaultRe" -> DefaultAt(s, p)
      [] re = "sideEffectRe" -> SideEffectAt(s, p)
      [] re = "fromRe" -> FromAt(s, p)
      [] re = "importRe" -> ImportAt(s, p)

\* re.FindStringSubmatch: the leftmost match of a pattern.
FindSubmatch(re, s) ==
    LET hits == {p \in 1..Len(s) : MatchAt(re, s, p).matched}
    IN IF hits = {} THEN NoMatch ELSE MatchAt(re, s, MinOf(hits))

\* m[key] = append(m[key], names...) on a map kept as a function.
AppendTo(m, key, names) ==
    IF names = << >> THEN m
    ELSE [k \in DOMAIN m \cup {key} |->
            IF k # key THEN m[k]
            ELSE IF key \in DOMAIN m THEN m[key] \o names ELSE names]

\* m[key] = value
Put(m, key, value) ==
    [k \in DOMAIN m \cup {key} |-> IF k = key THEN value ELSE m[k]]

EmptyMap == [k \in {} |-> << >>]

\* The empty maps and lists a merge function starts from.
EmptyMaps(lang) ==
    IF lang = "typescript"
      THEN [sourceToNames |-> EmptyMap, defaultImports |-> EmptyMap, sideEffects |-> << >>]
      ELSE [fromImports |-> EmptyMap, directImports |-> << >>]

\* MergeTSImports, the body of the loop over the imports.
ScanTSImport(maps, import) ==
    LET imp == TrimSpace(import)
        named == FindSubmatch("namedRe", imp)
        default == FindSubmatch("defaultRe", imp)
        side == FindSubmatch("sideEffectRe", imp)
    IN IF imp = << >> THEN maps
       ELSE IF named.matched
         THEN [maps EXCEPT !.sourceToNames =
                   AppendTo(@, named.source, SplitNames(named.names))]
       ELSE IF default.matched
         THEN [maps EXCEPT !.defaultImports = Put(@, default.source, default.name)]
       ELSE IF side.matched
         THEN [maps EXCEPT !.sideEffects = Append(@, side.source)]
       ELSE maps

\* MergePyImports, the body of the loop over the imports.
ScanPyImport(maps, import) ==
    LET imp == TrimSpace(import)
        from == FindSubmatch("fromRe", imp)
        direct == FindSubmatch("importRe", imp)
    IN IF imp = << >> THEN maps
       ELSE IF from.matched
         THEN [maps EXCEPT !.fromImports =
                   AppendTo(@, from.module, SplitNames(from.names))]
       ELSE IF direct.matched
         THEN [maps EXCEPT !.directImports = Append(@, direct.module)]
       ELSE maps

\* All orders in which the elements of a set can be visited.
Orders(S) ==
    {f \in [1..Cardinality(S) -> S] : \A i, j \in 1..Cardinality(S) : i # j => f[i] # f[j]}

\* The orders in which the range loops of a merge function can collect the
\* keys: in MergeTSImports the keys of sourceToNames, then the other keys of
\* defaultImports; in MergePyImports the keys of fromImports.
IterOrders(lang, maps) ==
    IF lang = "typescript"
      THEN {a \o b : a \in Orders(DOMAIN maps.sourceToNames),
                     b \in Orders(DOMAIN maps.defaultImports \ DOMAIN maps.sourceToNames)}
      ELSE Orders(DOMAIN maps.fromImports)

\* sort.Strings on the keys collected from a map.
SortKeys(keys) == SortTexts(keys)

\* MergeTSImports after the loop, with the order iter in which the range
\* loops delivered the keys: dedupe, side-effect imports, sorted sources, one
\* statement per source.
BuildTSImports(maps, iter) ==
    LET sideEffects == Compact(SortTexts(maps.sideEffects))
        sources == SortKeys(iter)
        Statement(source) ==
            LET def == IF source \in DOMAIN maps.defaultImports
                         THEN <<maps.defaultImports[source]>> ELSE << >>
                named == IF source \in DOMAIN maps.sourceToNames
                           THEN << <<"{", " ">>
                                     \o Join(Compact(SortTexts(maps.sourceToNames[source])),
                                             <<",", " ">>)
                                     \o <<" ", "}">> >>
                           ELSE << >>
            IN <<"import", " ">> \o Join(def \o named, <<",", " ">>)
                   \o <<" ", "from", " ", "\"">> \o source \o <<"\"">>
        result == [k \in 1..Len(sideEffects) |->
                       <<"import", " ", "\"">> \o sideEffects[k] \o <<"\"">>]
                  \o [k \in 1..Len(sources) |-> Statement(sources[k])]
    IN Join(result, <<"\n">>)

\* MergePyImports after the loop: dedupe, direct imports, from-imports sorted
\* by module.
BuildPyImports(maps, iter) ==
    LET directImports == Compact(SortTexts(maps.directImports))
        modules == SortKeys(iter)
        result == [k \in 1..Len(directImports) |-> <<"import", " ">> \o directImports[k]]
                  \o [k \in 1..Len(modules) |->
                         <<"from", " ">> \o modules[k] \o <<" ", "import", " ">>
                             \o Join(Compact(SortTexts(maps.fromImports[modules[k]])),
                                     <<",", " ">>)]
    IN Join(result, <<"\n">>)

\* Language.MergeImports: one turn of the loop over the imports.
MScan ==
    /\ mergePc = "scan"
    /\ mergeIdx <= Len(mergeIn)
    /\ mergeMaps' = IF mergeLang = "typescript"
                      THEN ScanTSImport(mergeMaps, mergeIn[mergeIdx])
                      ELSE ScanPyImport(mergeMaps, mergeIn[mergeIdx])
    /\ mergeIdx' = mergeIdx + 1
    /\ UNCHANGED <<mergeLang, mergeIn, mergePc, mergeOut, notMerge>>

\* Language.MergeImports: after the loop the range loops visit the keys in
\* some order and the merged text is returned ("" for no imports).
MBuild ==
    /\ mergePc = "scan"
    /\ mergeIdx > Len(mergeIn)
    /\ \E iter \in IterOrders(mergeLang, mergeMaps) :
          mergeOut' = IF mergeIn = << >> THEN << >>
                      ELSE IF mergeLang = "typescript" THEN BuildTSImports(mergeMaps, iter)
                      ELSE BuildPyImports(mergeMaps, iter)
    /\ mergePc' = "done"
    /\ UNCHANGED <<mergeLang, mergeIn, mergeIdx, mergeMaps, notMerge>>

\* Import strings adapters emit.
TSImports ==
    { <<"import", " ", "{", " ", "z", " ", "}", " ", "from", " ", "\"", "zod", "\"">>,
      <<"import", " ", "{", " ", "z", ",", " ", "ZodError", " ", "}", " ", "from", " ", "\"", "zod", "\"">>,
      <<"import", " ", "{", " ", "foo", " ", "}", " ", "from", " ", "'", "bar", "'">>,
      <<"import", " ", "React", " ", "from", " ", "\"", "react", "\"">>,
      <<"import", " ", "z", " ", "from", " ", "\"", "zod", "\"">>,
      <<"import", " ", "React", " ", "from", " ", "\"", "zod", "\"">>,
      <<"import", " ", "\"", "zod", "\"">>,
      <<"import", " ", "type", " ", "{", " ", "ZodError", " ", "}", " ", "from", " ", "\"", "zod", "\"">>,
      <<"import", " ", "z", ",", " ", "{", " ", "ZodError", " ", "}", " ", "from", " ", "\"", "zod", "\"">> }
PyImports ==
    { <<"from", " ", "pydantic", " ", "import", " ", "BaseModel">>,
      <<"from", " ", "pydantic", " ", "import", " ", "Field", ",", " ", "BaseModel">>,
      <<"from", " ", "uuid", " ", "import", " ", "UUID">>,
      <<"import", " ", "json">>,
      <<"import", " ", "uuid">> }
ImportsOf(lang) == IF lang = "typescript" THEN TSImports ELSE PyImports

-----------------------------------------------------------------------------
\* The generate command: runGenerate and generateStub.

\* Mutant: the flag is not looked at.
DryRunIgnored == FALSE

\* cfg.DryRun, as runGenerate and generateStub test it.
DryRun == cfg.DryRun

\* cfg.OutputDir
OutputDir == <<".", "xschema">>

\* detectLanguage: the first marker file found decides.
detectLanguage(projectFiles) ==
    IF projectFiles \cap {"package.json", "tsconfig.json", "bun.lockb", "package-lock.json"} # {}
      THEN "typescript"
    ELSE IF projectFiles \cap {"pyproject.toml", "setup.py", "requirements.txt", "Pipfile"} # {}
      THEN "python"
    ELSE IF "go.mod" \in projectFiles THEN "go"
    ELSE ""

\* filterBatchesByAdapter
filterBatchesByAdapter(bs, adapter) ==
    SelectSeq(bs, LAMBDA b : Contains(b.Adapter, adapter))

\* The path injector.Inject writes for a language.
OutPath(lang) == OutputDir \o <<"/">> \o OutputFile(lang)

\* Mutant: the error is recorded and the run goes on.
RunGoesOn(err) ==
    /\ runErr' = err
    /\ UNCHANGED runPc

\* The end of runGenerate with an error (NoError for nil).
RunReturn(err) ==
    /\ runPc' = "done"
    /\ runErr' = err

\* injector.Inject called by the run: the file is written unless the
\* language is not registered or the write fails.
RunInject(lang) ==
    /\ stages' = Append(stages, "inject")
    /\ IF ByName(lang) = NoLang \/ lang \in env.injectFails
         THEN /\ RunReturn(<<"inject", lang>>)
              /\ UNCHANGED written
         ELSE /\ written' = written \cup {OutPath(lang)}
              /\ UNCHANGED runErr

\* 1. Parse
RParse ==
    /\ runPc = "parse"
    /\ CASE env.parse = "err" -> RunReturn(<<"parse">>)
         [] env.parse = "none" -> runPc' = "stub" /\ UNCHANGED runErr
         [] OTHER -> runPc' = "retrieve" /\ UNCHANGED runErr
    /\ stages' = Append(stages, "parse")
    /\ UNCHANGED <<cfg, env, batches, batchIdx, outputsByLang, toInject, subprocs,
                   written, plan, notRun>>

\* generateStub
RStub ==
    /\ runPc = "stub"
    /\ LET lang == detectLanguage(env.files) IN
       IF lang = "" \/ DryRun
         THEN RunReturn(NoError) /\ UNCHANGED <<written, stages>>
         ELSE /\ RunInject(lang)
              /\ runPc' = "done"
    /\ UNCHANGED <<cfg, env, batches, batchIdx, outputsByLang, toInject, subprocs,
                   plan, notRun>>

\* 2. Retrieve, and the adapter filter
RRetrieve ==
    /\ runPc = "retrieve"
    /\ IF env.retrieve = << >>
         THEN RunReturn(<<"retrieve">>) /\ UNCHANGED <<batches, batchIdx>>
         ELSE LET kept == IF cfg.Adapter # << >>
                            THEN filterBatchesByAdapter(env.retrieve, cfg.Adapter)
                            ELSE env.retrieve
              IN IF kept = << >>
                   THEN RunReturn(<<"no schemas found for adapter", cfg.Adapter>>)
                        /\ UNCHANGED <<batches, batchIdx>>
                   ELSE /\ batches' = kept
                        /\ batchIdx' = 1
                        /\ runPc' = "generate"
                        /\ UNCHANGED runErr
    /\ stages' = Append(stages, "retrieve")
    /\ UNCHANGED <<cfg, env, outputsByLang, toInject, subprocs, written, plan, notRun>>

\* 3. Generate: one turn of the loop over the batches.
RBatch ==
    /\ runPc = "generate"
    /\ batchIdx <= Len(batches)
    /\ LET batch == batches[batchIdx] IN
       IF DryRun
         THEN /\ plan' = Append(plan, batch)
              /\ batchIdx' = batchIdx + 1
              /\ UNCHANGED <<runPc, runErr, outputsByLang, subprocs, stages>>
         ELSE /\ subprocs' = Append(subprocs, batch.Adapter)
              /\ stages' = Append(stages, "generate")
              /\ UNCHANGED plan
              /\ IF batchIdx \in env.generateFails
                   THEN /\ RunReturn(<<"generate", batch.Adapter>>)
                        /\ UNCHANGED <<batchIdx, outputsByLang>>
                   ELSE /\ outputsByLang' =
                              [l \in DOMAIN outputsByLang \cup {batch.Language} |->
                                  (IF l \in DOMAIN outputsByLang THEN outputsByLang[l] ELSE << >>)
                                  \o (IF l = batch.Language THEN <<batchIdx>> ELSE << >>)]
                        /\ batchIdx' = batchIdx + 1
                        /\ UNCHANGED <<runPc, runErr>>
    /\ UNCHANGED <<cfg, env, batches, toInject, written, notRun>>

\* The end of the generate loop: a dry run returns here.
RGenerated ==
    /\ runPc = "generate"
    /\ batchIdx > Len(batches)
    /\ IF DryRun
         THEN RunReturn(NoError) /\ UNCHANGED toInject
         ELSE /\ runPc' = "inject"
              /\ toInject' = DOMAIN outputsByLang
              /\ UNCHANGED runErr
    /\ UNCHANGED <<cfg, env, batches, batchIdx, outputsByLang, subprocs, written, plan,
                   stages, notRun>>

\* 4. Inject: one turn of the range loop over outputsByLang.
RInject ==
    /\ runPc = "inject"
    /\ \E lang \in toInject :
          /\ RunInject(lang)
          /\ toInject' = toInject \ {lang}
          /\ IF ByName(lang) = NoLang \/ lang \in env.injectFails
               THEN TRUE ELSE UNCHANGED runPc
    /\ UNCHANGED <<cfg, env, batches, batchIdx, outputsByLang, subprocs, plan, notRun>>

\* return nil
RComplete ==
    /\ runPc = "inject"
    /\ toInject = {}
    /\ RunReturn(NoError)
    /\ UNCHANGED <<cfg, env, batches, batchIdx, outputsByLang, toInject, subprocs,
                   written, plan, stages, notRun>>

\* The batches Retrieve can hand to the run.
RunBatches ==
    { [Adapter |-> <<"@xschema/", "zod">>, Language |-> "typescript"],
      [Adapter |-> <<"@xschema/", "pydantic">>, Language |-> "python"],
      [Adapter |-> <<"@xschema/", "zod">>, Language |-> "rust"] }
AdapterFilters == {<< >>, <<"zod">>, <<"valibot">>}
ProjectFiles == {{}, {"package.json"}, {"pyproject.toml", "go.mod"}, {"go.mod"}}

-----------------------------------------------------------------------------
\* The pipeline from retrieval to the generated file: Retrieve stores the
\* schemas, GenerateAll groups them and runs the adapters, Inject builds the
\* template data and writes the file.

\* The import strings an adapter puts into each of its outputs.
AdapterImports(lang, adapter) ==
    IF lang = "typescript"
      THEN CASE adapter = <<1>> ->
                  << <<"import", " ", "{", " ", "z", " ", "}", " ", "from", " ", "\"", "zod", "\"">> >>
             [] adapter = <<1, 2>> ->
                  << <<"import", " ", "{", " ", "foo", " ", "}", " ", "from", " ", "'", "bar", "'">>,
                     <<"import", " ", "React", " ", "from", " ", "\"", "react", "\"">> >>
             [] OTHER ->
                  << <<"import", " ", "{", " ", "z", ",", " ", "ZodError", " ", "}", " ", "from", " ", "\"", "zod", "\"">> >>
      ELSE CASE adapter = <<1>> ->
                  << <<"from", " ", "pydantic", " ", "import", " ", "BaseModel">> >>
             [] adapter = <<1, 2>> ->
                  << <<"from", " ", "uuid", " ", "import", " ", "UUID">>,
                     <<"from", " ", "pydantic", " ", "import", " ", "Field", ",", " ", "BaseModel">> >>
             [] OTHER ->
                  << <<"import", " ", "json">> >>

\* The reply of an adapter subprocess to a batch: one output per input, in
\* input order, a function of the batch alone.
AdapterReply(lang, adapter, batch) ==
    [k \in 1..Len(batch) |->
        [Convert(AdapterInput(batch[k])) EXCEPT !.Imports = AdapterImports(lang, adapter)]]

\* Mutant: the adapter keys are used in the order the range loop delivered them.
UnsortedKeys(keys) == keys

\* SortedAdapters, from the order in which `for k := range groups` delivered
\* the keys: sort.Strings(keys).
SortedKeys(keys) == SortSeq(keys, StrLess)

\* out.VarName(): namespace_id
VarName(out) == <<out.Namespace, "_", out.ID>>

\* The imports buildTemplateData hands to the merger.
AllImports(outputs) == Join([k \in 1..Len(outputs) |-> outputs[k].Imports], << >>)

\* buildTemplateData, with the text merged the import merger returned for
\* the imports of the outputs.
buildTemplateData(outputs, lang, merged) ==
    LET schemas == [k \in 1..Len(outputs) |->
                       [Namespace |-> outputs[k].Namespace, ID |-> outputs[k].ID,
                        VarName |-> VarName(outputs[k]), Code |-> outputs[k].Schema,
                        Type |-> outputs[k].Type]]
    IN [Imports |-> merged,
        Schemas |-> schemas,
        Header |-> << >>,
        Footer |-> IF lang = "python"
                     THEN [k \in 1..Len(schemas) |-> <<"from_url", schemas[k].VarName>>]
                          \o [k \in 1..Len(schemas) |-> <<"from_file", schemas[k].VarName>>]
                     ELSE << >>]

\* tmpl.Execute: the template writes the header, the imports, one entry per
\* schema in slice order, the table of the schema names, and the footer.
Execute(data) ==
    <<"Generated by xschema - DO NOT EDIT", data.Header, data.Imports,
      [k \in 1..Len(data.Schemas) |->
          <<data.Schemas[k].VarName, data.Schemas[k].Code, data.Schemas[k].Type>>],
      [k \in 1..Len(data.Schemas) |-> data.Schemas[k].VarName],
      data.Footer>>

\* The zero RetrievedSchema, as make([]RetrievedSchema, len(decls)) holds it.
ZeroSchema == [Namespace |-> "", ID |-> 0, Schema |-> << >>, Adapter |-> << >>]

\* A worker of Retrieve stores the schema of declaration i at results[i];
\* the workers finish in any order.
PStore(i) ==
    /\ pipePc = "retrieve"
    /\ i \in 1..Len(pipeDecls)
    /\ pipeResults[i] = ZeroSchema
    /\ pipeResults' = [pipeResults EXCEPT ![i] = MkRetrieved(i, pipeDecls[i])]
    /\ UNCHANGED <<pipeLang, pipeDecls, pipePc, pipeAdapters, pipeK, pipeOutputs, pipeFiles,
                   notPipeline>>

\* Retrieve returns; GenerateAll groups the schemas and sorts the keys its
\* range loop collected.
PGroup ==
    /\ pipePc = "retrieve"
    /\ \A i \in 1..Len(pipeDecls) : pipeResults[i] # ZeroSchema
    /\ \E keys \in Orders(DOMAIN GroupByAdapter(pipeResults)) :
          pipeAdapters' = SortedKeys(keys)
    /\ pipeK' = 1
    /\ pipePc' = "generate"
    /\ UNCHANGED <<pipeLang, pipeDecls, pipeResults, pipeOutputs, pipeFiles, notPipeline>>

\* GenerateAll: one adapter group.
PGenerate ==
    /\ pipePc = "generate"
    /\ pipeK <= Len(pipeAdapters)
    /\ LET adapter == pipeAdapters[pipeK]
           batch == GroupByAdapter(pipeResults)[adapter]
       IN pipeOutputs' = pipeOutputs \o AdapterReply(pipeLang, adapter, batch)
    /\ pipeK' = pipeK + 1
    /\ UNCHANGED <<pipeLang, pipeDecls, pipePc, pipeResults, pipeAdapters, pipeFiles,
                   notPipeline>>

\* GenerateAll returns; Inject calls buildTemplateData, which hands the
\* imports of all outputs to the language's import merger.
PCollect ==
    /\ pipePc = "generate"
    /\ pipeK > Len(pipeAdapters)
    /\ mergeLang' = pipeLang
    /\ mergeIn' = AllImports(pipeOutputs)
    /\ mergeIdx' = 1
    /\ mergeMaps' = EmptyMaps(pipeLang)
    /\ mergeOut' = << >>
    /\ mergePc' = "scan"
    /\ pipePc' = "inject"
    /\ UNCHANGED <<pipeLang, pipeDecls, pipeResults, pipeAdapters, pipeK, pipeOutputs,
                   pipeFiles, notPipelineMerge>>

\* The merger has returned; Inject executes the template and writes the
\* generated file.  The command ends, and the next run of it starts over on
\* the same declarations.
PWrite ==
    /\ pipePc = "inject"
    /\ mergePc = "done"
    /\ pipeFiles' = Append(pipeFiles,
                           Execute(buildTemplateData(pipeOutputs, pipeLang, mergeOut)))
    /\ pipePc' = IF pipeFiles = << >> THEN "retrieve" ELSE "done"
    /\ pipeResults' = [i \in 1..Len(pipeDecls) |-> ZeroSchema]
    /\ pipeAdapters' = << >>
    /\ pipeK' = 1
    /\ pipeOutputs' = << >>
    /\ UNCHANGED <<pipeLang, pipeDecls, notPipeline>>

-----------------------------------------------------------------------------
\* One call of generator.Generate with its adapter subprocess.  cmd.Run of
\* an exec.CommandContext starts the process unless the context is already
\* done, kills it when the context is cancelled while it runs, and returns
\* once the process has exited and has been waited on.

\* What an adapter process does when left alone: it exits, or it never ends.
ExecBehaviours == {"positional", "exit1", "garbage", "hang"}

\* The end of Generate.
ExecReturn(outputs, err) ==
    /\ execPc' = "done"
    /\ execRet' = [outputs |-> outputs, err |-> err]

\* getRunner and exec.LookPath
XEntry ==
    /\ execPc = "entry"
    /\ IF ByName(execIn.Language) = NoLang
         THEN ExecReturn(NoResult, "UnsupportedLanguage")
       ELSE IF ~execIn.runnerFound
         THEN ExecReturn(NoResult, "RunnerNotFound")
       ELSE execPc' = "start" /\ UNCHANGED execRet
    /\ UNCHANGED <<execIn, execCtx, proc, procKilled, notExec>>

\* cmd.Run, its Start: with a context that is done no process is started and
\* the context's error comes back.
XStart ==
    /\ execPc = "start"
    /\ IF execCtx
         THEN ExecReturn(NoResult, "Cancelled") /\ UNCHANGED proc
         ELSE /\ proc' = "running"
              /\ execPc' = "wait"
              /\ UNCHANGED execRet
    /\ UNCHANGED <<execIn, execCtx, procKilled, notExec>>

\* The caller cancels the context while Generate runs.
XCancel ==
    /\ execPc \notin {"off", "done"}
    /\ ~execCtx
    /\ execCtx' = TRUE
    /\ UNCHANGED <<execIn, execPc, proc, procKilled, execRet, notExec>>

\* exec.Cmd's watcher: the context is done while the process runs, the
\* process is killed.
XKill ==
    /\ execPc = "wait"
    /\ execCtx
    /\ proc = "running"
    /\ ~procKilled
    /\ procKilled' = TRUE
    /\ UNCHANGED <<execIn, execPc, execCtx, proc, execRet, notExec>>

\* The process ends: by itself, or because it was killed.
XExit ==
    /\ proc = "running"
    /\ procKilled \/ execIn.behaviour # "hang"
    /\ proc' = "exited"
    /\ UNCHANGED <<execIn, execPc, execCtx, procKilled, execRet, notExec>>

\* Mutant: Wait gives up on the process once the context is done.
XWaitUnlessCancelled ==
    /\ execPc = "wait"
    /\ proc = "exited" \/ execCtx
    /\ ExecReturn(NoResult, "Cancelled")
    /\ UNCHANGED <<execIn, execCtx, proc, procKilled, notExec>>

\* cmd.Run, its Wait: blocks until the process has exited, reaps it, and
\* Generate returns the error of the run, the error of json.Unmarshal or the
\* outputs.
XWait ==
    /\ execPc = "wait"
    /\ proc = "exited"
    /\ proc' = "reaped"
    /\ CASE procKilled -> ExecReturn(NoResult, "Cancelled")
         [] execIn.behaviour = "exit1" -> ExecReturn(NoResult, "AdapterFailed")
         [] execIn.behaviour = "garbage" -> ExecReturn(NoResult, "InvalidOutput")
         [] OTHER -> ExecReturn(<<"outputs">>, NoError)
    /\ UNCHANGED <<execIn, execCtx, procKilled, notExec>>

-----------------------------------------------------------------------------
\* The retry delays of retrieveFromURL.  A time.Duration is an int64 of
\* nanoseconds, kept here as its 64 bits (bit 0 the lowest) so that the
\* arithmetic wraps as the machine's does.

retryBaseDelay == 500000000
Int64Bits == 0..63

\* The int64 of a number below 2^31.
BitsOf(n) == [i \in Int64Bits |-> IF i < 31 THEN (n \div (2 ^ i)) % 2 ELSE 0]

\* x << k on int64: bits shifted out are lost, a count of 64 or more gives 0.
ShiftLeft(x, k) == [i \in Int64Bits |-> IF i >= k THEN x[i - k] ELSE 0]

\* x + y on int64, wrapping.  The carry into bit i is 1 when some lower bit j
\* is set in both and every bit between j and i is set in one of them.
Add64(x, y) ==
    LET carry(i) ==
            IF \E j \in 0..(i - 1) :
                   /\ x[j] = 1 /\ y[j] = 1
                   /\ \A k \in (j + 1)..(i - 1) : x[k] + y[k] >= 1
            THEN 1 ELSE 0
    IN [i \in Int64Bits |-> (x[i] + y[i] + carry(i)) % 2]

\* x * y on int64, wrapping: the sum of x << i over the set bits i of y.
RECURSIVE MulFrom(_, _, _)
MulFrom(x, y, i) ==
    IF i > 63 THEN BitsOf(0)
    ELSE IF y[i] = 1 THEN Add64(ShiftLeft(x, i), MulFrom(x, y, i + 1))
    ELSE MulFrom(x, y, i + 1)
Mul64(x, y) == MulFrom(x, y, 0)

\* Signed comparison x <= y of two int64.
LessEq64(x, y) ==
    IF x[63] # y[63] THEN x[63] = 1
    ELSE LET diff == {i \in Int64Bits : x[i] # y[i]}
         IN diff = {} \/ y[CHOOSE i \in diff : \A j \in diff : j <= i] = 1

\* delay := retryBaseDelay * time.Duration(1<<(attempt-1))
Delay(attempt) == Mul64(BitsOf(retryBaseDelay), ShiftLeft(BitsOf(1), attempt - 1))

\* maxAttempts of the fetch.
BoMaxAttempts == IF boRetries < 1 THEN 1 ELSE boRetries

\* Top of the attempt loop: from the second attempt on, the delay is waited.
BoWait ==
    /\ boPc = "top"
    /\ boAttempt < BoMaxAttempts
    /\ boDelays' = IF boAttempt > 0 THEN Append(boDelays, Delay(boAttempt)) ELSE boDelays
    /\ boPc' = "request"
    /\ UNCHANGED <<boRetries, boAttempt, notBackoff>>

\* The request fails with a 5xx or in the transport: continue.
BoRetryable ==
    /\ boPc = "request"
    /\ boAttempt' = boAttempt + 1
    /\ boPc' = IF boAttempt + 1 < BoMaxAttempts THEN "top" ELSE "done"
    /\ UNCHANGED <<boRetries, boDelays, notBackoff>>

\* The request is answered with a terminal status or a body: return.
BoReturn ==
    /\ boPc = "request"
    /\ boPc' = "done"
    /\ UNCHANGED <<boRetries, boAttempt, boDelays, notBackoff>>

-----------------------------------------------------------------------------
\* Specifications

RetrieveIdle ==
    /\ decls = << >>
    /\ opts = [Concurrency |-> 1, Retries |-> 1, NoCache |-> FALSE]
    /\ srvK = 0
    /\ srvFinal = "ok"
    /\ srvHits = [u \in URLs |-> 0]
    /\ fileStatus = "ok"
    /\ pcMain = "off"
    /\ idx = 1
    /\ cache = [k \in AllKeys |-> NoEntry]
    /\ workers = << >>
    /\ running = 0
    /\ gerr = NoError
    /\ ctxDone = FALSE
    /\ parentCancelled = FALSE
    /\ results = << >>
    /\ slotWrites = << >>
    /\ ret = NoResult

ParseIdle ==
    /\ files = << >>
    /\ langFilter = ""
    /\ pcParse = "off"
    /\ fileIdx = 1
    /\ configs = << >>
    /\ detectedLang = NoLang
    /\ languageConflict = FALSE
    /\ parseCancelled = FALSE
    /\ filesRead = {}
    /\ parseRet = NoResult

GenerateIdle ==
    /\ genIn = << >>
    /\ genLang = "typescript"
    /\ runnerFound = TRUE
    /\ adapterBehaviour = << >>
    /\ pcGen = "off"
    /\ genK = 1
    /\ allOutputs = << >>
    /\ genCalls = << >>
    /\ genRet = NoResult

InjectIdle ==
    /\ clientFile = [exists |-> FALSE, content |-> << >>]
    /\ injLang = "typescript"
    /\ injOutDir = << >>
    /\ injHist = << >>
    /\ injWrites = 0

BackoffIdle ==
    /\ boRetries = 1
    /\ boPc = "off"
    /\ boAttempt = 0
    /\ boDelays = << >>

MergeIdle ==
    /\ mergeLang = "typescript"
    /\ mergeIn = << >>
    /\ mergeIdx = 1
    /\ mergeMaps = EmptyMaps("typescript")
    /\ mergePc = "off"
    /\ mergeOut = << >>

RunIdle ==
    /\ cfg = [DryRun |-> FALSE, Adapter |-> << >>]
    /\ env = [parse |-> "none", files |-> {}, retrieve |-> << >>, generateFails |-> {}, injectFails |-> {}]
    /\ runPc = "off"
    /\ batches = << >>
    /\ batchIdx = 1
    /\ outputsByLang = << >>
    /\ toInject = {}
    /\ subprocs = << >>
    /\ written = {}
    /\ plan = << >>
    /\ runErr = NoError
    /\ stages = << >>

PipelineIdle ==
    /\ pipeLang = "typescript"
    /\ pipeDecls = << >>
    /\ pipePc = "off"
    /\ pipeResults = << >>
    /\ pipeAdapters = << >>
    /\ pipeK = 1
    /\ pipeOutputs = << >>
    /\ pipeFiles = << >>

ExecIdle ==
    /\ execIn = [Language |-> "typescript", runnerFound |-> TRUE, behaviour |-> "positional", cancelledBefore |-> FALSE]
    /\ execPc = "off"
    /\ execCtx = FALSE
    /\ proc = "none"
    /\ procKilled = FALSE
    /\ execRet = NoResult

CacheIdle ==
    /\ scOps = << >>
    /\ scPc = << >>
    /\ scMu = [w |-> 0, r |-> {}]
    /\ scItems = << >>
    /\ scGot = << >>

WriteIdle ==
    /\ outDirExists = FALSE
    /\ outFile = [exists |-> FALSE, content |-> << >>]
    /\ rendered = << >>
    /\ outPrev = [exists |-> FALSE, content |-> << >>]
    /\ writePc = "off"
    /\ seen = << >>

RetrieveInit ==
    /\ decls \in DeclLists
    /\ opts \in [Concurrency : -1..MaxConc,
                 Retries : IF HasKind(decls, SourceURL) THEN 0..MaxRetries ELSE {1},
                 NoCache : BOOLEAN]
    /\ srvK \in (IF HasKind(decls, SourceURL) THEN 0..MaxK ELSE {0})
    /\ srvFinal \in (IF HasKind(decls, SourceURL)
                       THEN {"ok", "badjson", "notfound", "toomany"} ELSE {"ok"})
    /\ srvHits = [u \in URLs |-> 0]
    /\ fileStatus \in (IF HasKind(decls, SourceFile)
                         THEN {"ok", "missing", "badjson"} ELSE {"ok"})
    /\ pcMain = "entry"
    /\ idx = 1
    /\ cache = [k \in AllKeys |-> NoEntry]
    /\ workers = [i \in 1..Len(decls) |-> IdleWorker]
    /\ running = 0
    /\ gerr = NoError
    /\ ctxDone = FALSE
    /\ parentCancelled = FALSE
    /\ results = [i \in 1..Len(decls) |-> NoResult]
    /\ slotWrites = [i \in 1..Len(decls) |-> << >>]
    /\ ret = NoResult
    /\ ParseIdle /\ GenerateIdle /\ InjectIdle /\ BackoffIdle /\ MergeIdle /\ RunIdle /\ PipelineIdle /\ ExecIdle /\ CacheIdle /\ WriteIdle

RetrieveNext ==
    \/ REntry
    \/ RCheck
    \/ RGo
    \/ RWait
    \/ CancelCtx
    \/ \E i \in 1..N : WStart(i)
    \/ \E i \in 1..N : WRequest(i)
    \/ \E i \in 1..N : WBackoffTimer(i)
    \/ \E i \in 1..N : WBackoffCancel(i)
    \/ \E i \in 1..N : WFile(i)
    \/ \E i \in 1..N : WStore(i)
    \/ \E i \in 1..N : WFinish(i)
    \/ \E i \in 1..N : WExit(i)

SpecRetrieve == RetrieveInit /\ [][RetrieveNext]_vars

\* The steps of Retrieve and of its workers: all of RetrieveNext but the
\* caller's cancellation.
RetrieveSteps ==
    \/ REntry
    \/ RCheck
    \/ RGo
    \/ RWait
    \/ \E i \in 1..N : WStart(i)
    \/ \E i \in 1..N : WRequest(i)
    \/ \E i \in 1..N : WBackoffTimer(i)
    \/ \E i \in 1..N : WBackoffCancel(i)
    \/ \E i \in 1..N : WFile(i)
    \/ \E i \in 1..N : WStore(i)
    \/ \E i \in 1..N : WFinish(i)
    \/ \E i \in 1..N : WExit(i)


ParseInit ==
    /\ \E n \in 0..MaxFiles : \E fs \in [1..n -> FileChoices(0)] :
           files = [i \in 1..n |-> [fs[i] EXCEPT !.Path = <<i, fs[i].Path[2], fs[i].Path[3]>>]]
    /\ langFilter \in {"", "typescript", "python", "go"}
    /\ pcParse = "discover"
    /\ fileIdx = 1
    /\ configs = << >>
    /\ detectedLang = NoLang
    /\ languageConflict = FALSE
    /\ parseCancelled = FALSE
    /\ filesRead = {}
    /\ parseRet = NoResult
    /\ RetrieveIdle /\ GenerateIdle /\ InjectIdle /\ BackoffIdle /\ MergeIdle /\ RunIdle /\ PipelineIdle /\ ExecIdle /\ CacheIdle /\ WriteIdle

ParseNext ==
    \/ PDiscover
    \/ PFile
    \/ PFinish
    \/ PCancel

SpecParse == ParseInit /\ [][ParseNext]_vars

GenerateInit ==
    /\ genIn \in SchemaLists
    /\ genLang \in RunnerLanguages
    /\ runnerFound \in BOOLEAN
    /\ adapterBehaviour \in [AdaptersIn(genIn) -> Behaviours]
    /\ pcGen = "start"
    /\ genK = 1
    /\ allOutputs = << >>
    /\ genCalls = << >>
    /\ genRet = NoResult
    /\ RetrieveIdle /\ ParseIdle /\ InjectIdle /\ BackoffIdle /\ MergeIdle /\ RunIdle /\ PipelineIdle /\ ExecIdle /\ CacheIdle /\ WriteIdle

GenerateNext ==
    \/ GStart
    \/ GGroup
    \/ GReturn

SpecGenerate == GenerateInit /\ [][GenerateNext]_vars

InjectInit ==
    /\ clientFile \in {[exists |-> FALSE, content |-> << >>]}
                        \cup {[exists |-> TRUE, content |-> t] : t \in ClientTexts}
    /\ injLang \in Languages
    /\ injOutDir \in OutDirs
    /\ injHist = << >>
    /\ injWrites = 0
    /\ RetrieveIdle /\ ParseIdle /\ GenerateIdle /\ BackoffIdle /\ MergeIdle /\ RunIdle /\ PipelineIdle /\ ExecIdle /\ CacheIdle /\ WriteIdle

InjectNext == InjectClient

SpecInject == InjectInit /\ [][InjectNext]_vars

BackoffInit ==
    /\ boRetries \in 0..MaxBackoffRetries
    /\ boPc = "top"
    /\ boAttempt = 0
    /\ boDelays = << >>
    /\ RetrieveIdle /\ ParseIdle /\ GenerateIdle /\ InjectIdle /\ MergeIdle /\ RunIdle /\ PipelineIdle /\ ExecIdle /\ CacheIdle /\ WriteIdle

BackoffNext ==
    \/ BoWait
    \/ BoRetryable
    \/ BoReturn

SpecBackoff == BackoffInit /\ [][BackoffNext]_vars

MergeInit ==
    /\ mergeLang \in {"typescript", "python"}
    /\ \E n \in 0..MaxImports : mergeIn \in [1..n -> ImportsOf(mergeLang)]
    /\ mergeIdx = 1
    /\ mergeMaps = EmptyMaps(mergeLang)
    /\ mergePc = "scan"
    /\ mergeOut = << >>
    /\ RetrieveIdle /\ ParseIdle /\ GenerateIdle /\ InjectIdle /\ BackoffIdle /\ RunIdle /\ PipelineIdle /\ ExecIdle /\ CacheIdle /\ WriteIdle

MergeNext ==
    \/ MScan
    \/ MBuild

SpecMerge == MergeInit /\ [][MergeNext]_vars

RunInit ==
    /\ cfg \in [DryRun : BOOLEAN, Adapter : AdapterFilters]
    /\ \E n \in 0..MaxBatches :
          env \in [parse : {"err", "none", "some"}, files : ProjectFiles,
                   retrieve : [1..n -> RunBatches],
                   generateFails : SUBSET (1..n), injectFails : SUBSET {"python"}]
    /\ runPc = "parse"
    /\ batches = << >>
    /\ batchIdx = 1
    /\ outputsByLang = << >>
    /\ toInject = {}
    /\ subprocs = << >>
    /\ written = {}
    /\ plan = << >>
    /\ runErr = NoError
    /\ stages = << >>
    /\ RetrieveIdle /\ ParseIdle /\ GenerateIdle /\ InjectIdle /\ BackoffIdle /\ MergeIdle /\ PipelineIdle /\ ExecIdle /\ CacheIdle /\ WriteIdle

RunNext ==
    \/ RParse
    \/ RStub
    \/ RRetrieve
    \/ RBatch
    \/ RGenerated
    \/ RInject
    \/ RComplete

SpecRun == RunInit /\ [][RunNext]_vars

PipelineInit ==
    /\ pipeLang \in Languages
    /\ \E n \in 1..MaxPipeDecls : pipeDecls \in [1..n -> AdapterNames]
    /\ pipePc = "retrieve"
    /\ pipeResults = [i \in 1..Len(pipeDecls) |-> ZeroSchema]
    /\ pipeAdapters = << >>
    /\ pipeK = 1
    /\ pipeOutputs = << >>
    /\ pipeFiles = << >>
    /\ RetrieveIdle /\ ParseIdle /\ GenerateIdle /\ InjectIdle /\ BackoffIdle /\ MergeIdle /\ RunIdle /\ ExecIdle /\ CacheIdle /\ WriteIdle

PipelineNext ==
    \/ \E i \in 1..MaxPipeDecls : PStore(i)
    \/ PGroup
    \/ PGenerate
    \/ PCollect
    \/ MScan
    \/ MBuild
    \/ PWrite

SpecPipeline == PipelineInit /\ [][PipelineNext]_vars

ExecInit ==
    /\ execIn \in [Language : RunnerLanguages, runnerFound : BOOLEAN,
                    behaviour : ExecBehaviours, cancelledBefore : BOOLEAN]
    /\ execPc = "entry"
    /\ execCtx = execIn.cancelledBefore
    /\ proc = "none"
    /\ procKilled = FALSE
    /\ execRet = NoResult
    /\ RetrieveIdle /\ ParseIdle /\ GenerateIdle /\ InjectIdle /\ BackoffIdle /\ MergeIdle /\ RunIdle /\ PipelineIdle /\ CacheIdle /\ WriteIdle

ExecNext ==
    \/ XEntry
    \/ XStart
    \/ XCancel
    \/ XKill
    \/ XExit
    \/ XWait

SpecExec == ExecInit /\ [][ExecNext]_vars

-----------------------------------------------------------------------------
\* schemaCache: get and set called from several goroutines at once (the
\* dispatch loop of Retrieve calls get, the workers call set).  A value is a
\* slice header of more than one memory word, so the store into the map is
\* modelled as two word writes; without the mutex a reader or a second writer
\* could come between them.  sync.RWMutex also keeps new readers out while a
\* writer waits; the model lets them in, which only adds behaviours.

CacheKeys == {"k1", "k2"}

\* A value as two memory words; the words of one value are equal.
CacheValues == {<<1, 1>>, <<2, 2>>}

\* The words of a key that is not in the map.
CacheAbsent == <<0, 0>>

CacheCalls ==
    [kind : {"get"}, key : CacheKeys, val : {CacheAbsent}]
        \cup [kind : {"set"}, key : CacheKeys, val : CacheValues]

\* Mutant: Lock never waits.
MuCanLockAlways == TRUE

\* c.mu.Lock() goes through when nobody holds the mutex.
MuCanLock == scMu.w = 0 /\ scMu.r = {}

\* c.mu.RLock() goes through when no writer holds the mutex.
MuCanRLock == scMu.w = 0

\* get: c.mu.RLock()
GetRLock(i) ==
    /\ scOps[i].kind = "get"
    /\ scPc[i] = "call"
    /\ MuCanRLock
    /\ scMu' = [scMu EXCEPT !.r = @ \cup {i}]
    /\ scPc' = [scPc EXCEPT ![i] = "rlocked"]
    /\ UNCHANGED <<scOps, scItems, scGot, notCache>>

\* get: v, ok := c.items[key]
GetRead(i) ==
    /\ scPc[i] = "rlocked"
    /\ scGot' = [scGot EXCEPT ![i] = scItems[scOps[i].key]]
    /\ scPc' = [scPc EXCEPT ![i] = "read"]
    /\ UNCHANGED <<scOps, scMu, scItems, notCache>>

\* get: the deferred c.mu.RUnlock() and the return.
GetRUnlock(i) ==
    /\ scPc[i] = "read"
    /\ scMu' = [scMu EXCEPT !.r = @ \ {i}]
    /\ scPc' = [scPc EXCEPT ![i] = "done"]
    /\ UNCHANGED <<scOps, scItems, scGot, notCache>>

\* set: c.mu.Lock()
SetLock(i) ==
    /\ scOps[i].kind = "set"
    /\ scPc[i] = "call"
    /\ MuCanLock
    /\ scMu' = [scMu EXCEPT !.w = i]
    /\ scPc' = [scPc EXCEPT ![i] = "locked"]
    /\ UNCHANGED <<scOps, scItems, scGot, notCache>>

\* set: c.items[key] = val, the first word.
SetStore1(i) ==
    /\ scPc[i] = "locked"
    /\ scItems' = [scItems EXCEPT ![scOps[i].key] = <<scOps[i].val[1], @[2]>>]
    /\ scPc' = [scPc EXCEPT ![i] = "half"]
    /\ UNCHANGED <<scOps, scMu, scGot, notCache>>

\* set: c.items[key] = val, the second word.
SetStore2(i) ==
    /\ scPc[i] = "half"
    /\ scItems' = [scItems EXCEPT ![scOps[i].key] = <<@[1], scOps[i].val[2]>>]
    /\ scPc' = [scPc EXCEPT ![i] = "stored"]
    /\ UNCHANGED <<scOps, scMu, scGot, notCache>>

\* set: the deferred c.mu.Unlock() and the return.
SetUnlock(i) ==
    /\ scPc[i] = "stored"
    /\ scMu' = [scMu EXCEPT !.w = 0]
    /\ scPc' = [scPc EXCEPT ![i] = "done"]
    /\ UNCHANGED <<scOps, scItems, scGot, notCache>>

\* newSchemaCache, and NCacheCalls goroutines about to call get or set.
CacheInit ==
    /\ scOps \in [1..NCacheCalls -> CacheCalls]
    /\ scPc = [i \in 1..NCacheCalls |-> "call"]
    /\ scMu = [w |-> 0, r |-> {}]
    /\ scItems = [k \in CacheKeys |-> CacheAbsent]
    /\ scGot = [i \in 1..NCacheCalls |-> << >>]
    /\ RetrieveIdle /\ ParseIdle /\ GenerateIdle /\ InjectIdle /\ BackoffIdle /\ MergeIdle /\ RunIdle /\ PipelineIdle /\ ExecIdle /\ WriteIdle

CacheNext ==
    \E i \in 1..NCacheCalls :
        \/ GetRLock(i)
        \/ GetRead(i)
        \/ GetRUnlock(i)
        \/ SetLock(i)
        \/ SetStore1(i)
        \/ SetStore2(i)
        \/ SetUnlock(i)

SpecCache == CacheInit /\ [][CacheNext]_vars

-----------------------------------------------------------------------------
\* Inject, from os.MkdirAll to its return, with a process that reads the
\* output file while Inject runs.  A file content is a sequence of blocks.
\* os.WriteFile opens the file with O_WRONLY|O_CREATE|O_TRUNC, writes the
\* buffer and closes the file; a write may put down part of the buffer and
\* go on with the rest.

Blocks == {"a", "b"}

\* The contents a rendered file may have: MaxBlocks blocks at most, one at least.
FileContents ==
    UNION {[1..n -> Blocks] : n \in 1..MaxBlocks}

\* os.MkdirAll(input.OutDir, 0755)
IMkdirAll ==
    /\ writePc = "mkdir"
    /\ outDirExists' = TRUE
    /\ writePc' = "open"
    /\ UNCHANGED <<outFile, rendered, outPrev, seen, notWrite>>

\* os.WriteFile: OpenFile(name, O_WRONLY|O_CREATE|O_TRUNC, perm)
IOpenTrunc ==
    /\ writePc = "open"
    /\ outFile' = [exists |-> TRUE, content |-> << >>]
    /\ writePc' = "write"
    /\ UNCHANGED <<outDirExists, rendered, outPrev, seen, notWrite>>

\* os.WriteFile: f.Write(data), one or more blocks at a time.
IWrite ==
    /\ writePc = "write"
    /\ \E n \in (Len(outFile.content) + 1)..Len(rendered) :
           /\ outFile' = [outFile EXCEPT !.content = SubSeq(rendered, 1, n)]
           /\ writePc' = IF n = Len(rendered) THEN "close" ELSE "write"
    /\ UNCHANGED <<outDirExists, rendered, outPrev, seen, notWrite>>

\* os.WriteFile: f.Close(), and Inject returns nil.
IClose ==
    /\ writePc = "close"
    /\ writePc' = "done"
    /\ UNCHANGED <<outDirExists, outFile, rendered, outPrev, seen, notWrite>>

\* Another process reads <out_dir>/<output_file>.
ReadOutput ==
    /\ writePc # "off"
    /\ Len(seen) < MaxReads
    /\ seen' = Append(seen, outFile)
    /\ UNCHANGED <<outDirExists, outFile, rendered, outPrev, writePc, notWrite>>

\* Inject has rendered the template; the output directory may exist and hold
\* the file of an earlier run.
WriteInit ==
    /\ rendered \in FileContents
    /\ outDirExists \in BOOLEAN
    /\ outPrev \in {[exists |-> FALSE, content |-> << >>]}
                     \cup (IF outDirExists
                             THEN {[exists |-> TRUE, content |-> c] : c \in FileContents}
                             ELSE {})
    /\ outFile = outPrev
    /\ writePc = "mkdir"
    /\ seen = << >>
    /\ RetrieveIdle /\ ParseIdle /\ GenerateIdle /\ InjectIdle /\ BackoffIdle /\ MergeIdle /\ RunIdle /\ PipelineIdle /\ ExecIdle /\ CacheIdle

WriteNext ==
    \/ IMkdirAll
    \/ IOpenTrunc
    \/ IWrite
    \/ IClose
    \/ ReadOutput

SpecWrite == WriteInit /\ [][WriteNext]_vars


-----------------------------------------------------------------------------
\* Properties of the retriever

Returned == pcMain = "done"
Succeeded == Returned /\ ret.err = NoError
Fetched(i) == decls[i].SourceType \in {SourceURL, SourceFile}
SameKey(i) == {j \in 1..N : CacheKey(decls[j]) = CacheKey(decls[i])}
FetchesOf(S) == Cardinality({j \in S : workers[j].fetches = 1})

\* C2: on a successful Retrieve with the cache enabled, the declarations that
\* share one cache key (same URL, same resolved file) cause exactly one
\* underlying fetch between them, whatever the interleaving; with NoCache
\* every such declaration causes its own fetch.
C2_OneFetchPerKey ==
    Succeeded =>
        \A i \in 1..N : Fetched(i) =>
            IF opts.NoCache THEN workers[i].fetches = 1
            ELSE FetchesOf(SameKey(i)) = 1

\* A URL fetch that is the only one to address its URL, against a server that
\* answers 200 with valid JSON after its srvK failures, and that has come to
\* its end.
SoleURL(i) ==
    /\ decls[i].SourceType = SourceURL
    /\ \A j \in 1..N : j # i => decls[j].Source # decls[i].Source
FetchEnded(i) == workers[i].pc \in {"store", "finish", "return", "exited"}
Interrupted(i) == workers[i].err \in {"Cancelled", "TransportError"}

\* C3: against a URL that answers 500 to its first K requests and 200 with a
\* JSON body afterwards, a fetch with retries >= K+1 succeeds after exactly
\* K+1 requests with the bytes of the 200 response, and a fetch with
\* 1 <= retries <= K fails after exactly `retries` requests (a fetch the
\* cancellation interrupts aside).
C3_RetryPolicy ==
    \A i \in 1..N :
        (SoleURL(i) /\ srvFinal = "ok" /\ FetchEnded(i) /\ ~Interrupted(i)) =>
            LET w == workers[i] IN
            /\ opts.Retries >= srvK + 1 =>
                 /\ w.err = NoError
                 /\ w.reqs = srvK + 1
                 /\ w.schema = BodyOf(decls[i].Source)
            /\ (1 <= opts.Retries /\ opts.Retries <= srvK) =>
                 /\ w.err = "ServerError"
                 /\ w.reqs = opts.Retries

\* C3 witness: a fetch succeeded at its second attempt, after one 500.
C3_Witness ==
    \E i \in 1..N :
        /\ SoleURL(i) /\ srvFinal = "ok" /\ srvK = 1 /\ opts.Retries = 2
        /\ workers[i].pc = "exited" /\ workers[i].err = NoError /\ workers[i].reqs = 2

\* C17: a fetch answered with a 4xx status other than 429 (here 404) ends
\* with that request: it returns the status error and makes no further
\* attempt, also when attempts remain.
C17_ClientErrorTerminal ==
    \A i \in 1..N :
        (SoleURL(i) /\ srvFinal = "notfound") =>
            LET w == workers[i] IN
            /\ w.reqs <= srvK + 1
            /\ w.reqs = srvK + 1 =>
                 /\ w.pc \in {"return", "exited"}
                 /\ w.err = "HTTPStatus"

\* C17 witness: a 404 on the first of two allowed attempts ended the fetch.
C17_Witness ==
    \E i \in 1..N :
        /\ SoleURL(i) /\ srvFinal = "notfound" /\ srvK = 0 /\ opts.Retries = 2
        /\ workers[i].pc = "exited" /\ workers[i].err = "HTTPStatus"
        /\ workers[i].reqs = 1

\* C18: a 429 answer is retried like a 5xx: against a URL that always answers
\* 429 a fetch (a fetch the cancellation interrupts aside) ends only after
\* all its attempts.
C18_TooManyRequestsRetried ==
    \A i \in 1..N :
        (SoleURL(i) /\ srvFinal = "toomany" /\ FetchEnded(i) /\ ~Interrupted(i)) =>
            workers[i].reqs = maxAttempts

\* C5: a successful Retrieve returns one RetrievedSchema per declaration, the
\* element at position i carrying declaration i's namespace, id and adapter
\* and the bytes of declaration i's source.
C5_Positional ==
    (Succeeded /\ N > 0) =>
        /\ DOMAIN ret.results = 1..N
        /\ \A i \in 1..N :
             ret.results[i] = [Namespace |-> decls[i].Namespace, ID |-> decls[i].ID,
                               Schema |-> BytesOf(decls[i]), Adapter |-> decls[i].Adapter]

\* C25: in a successful result the schema of every inline declaration is
\* the source embedded in that declaration, unchanged, with the cache on or
\* off and whatever the other declarations of the batch are.
C25_InlinePassedThrough ==
    (Succeeded /\ N > 0) =>
        \A i \in 1..N :
            decls[i].SourceType = SourceJSON => ret.results[i].Schema = decls[i].Source

\* C6: a Retrieve on a non-empty list whose context the caller cancelled
\* before it returned never returns a successful result.
C6_CancelledNeverSucceeds ==
    (Returned /\ N > 0 /\ parentCancelled) => ret.err # NoError

Failed(i) == workers[i].pc \in {"return", "exited"} /\ workers[i].err # NoError

\* C7: once a worker's failure is recorded the group's context is cancelled,
\* no worker leaves its backoff for a further attempt and no request reaches
\* the server any more; Retrieve then returns an error and no result list.
C7_FailFast ==
    /\ [](gerr # NoError => ctxDone)
    /\ []((Returned /\ \E i \in 1..N : Failed(i)) =>
             (ret.err # NoError /\ ret.results = NoResult))
    /\ [][ctxDone =>
             /\ srvHits' = srvHits
             /\ \A i \in 1..N :
                  ~(workers[i].pc = "backoff" /\ workers'[i].pc = "request")]_vars

\* C7 witness: one declaration failed terminally while another fetch was
\* waiting in backoff, and that fetch stopped with the cancellation error.
C7_Witness ==
    /\ ~parentCancelled
    /\ gerr # NoError /\ gerr[2] = "ReadFailed"
    /\ \E i \in 1..N : workers[i].err = "Cancelled" /\ workers[i].reqs = 1


\* The goroutines g.Go has started that have not exited yet.
ActiveWorkers == {i \in 1..N : workers[i].pc \notin {"idle", "exited"}}

\* C24: at every moment of Retrieve the fetch workers that are running are
\* at most opts.Concurrency; a declaration whose worker would exceed that
\* number is not started until a running worker has exited.
C24_WorkersBounded ==
    ActiveWorkers # {} => Cardinality(ActiveWorkers) <= opts.Concurrency


\* C19: the delays waited before the successive attempts of a fetch never
\* decrease, each being the 500ms base delay doubled once per earlier retry,
\* in 64-bit signed nanoseconds.
C19_DelaysNonDecreasing ==
    /\ \A n \in 1..Len(boDelays) :
         boDelays[n] = (IF n = 1 THEN BitsOf(retryBaseDelay)
                        ELSE Add64(boDelays[n - 1], boDelays[n - 1]))
    /\ \A n \in 1..(Len(boDelays) - 1) : LessEq64(boDelays[n], boDelays[n + 1])

-----------------------------------------------------------------------------
\* Properties of the parser

ParseDone == pcParse = "done"

\* Parse got as far as mergeDeclarations.
MergeReached == ParseDone /\ parseRet.err.kind \in {"nil", "DuplicateID"}

\* The schema entries handed to mergeDeclarations, and the pairs of them that
\* resolve to the same (namespace, id).
MergeInput == Entries(configs)
DupPairs ==
    {p \in (1..Len(MergeInput)) \X (1..Len(MergeInput)) :
        /\ p[1] < p[2]
        /\ MergeInput[p[1]].config.Namespace = MergeInput[p[2]].config.Namespace
        /\ MergeInput[p[1]].schema.ID = MergeInput[p[2]].schema.ID}

\* C1: a successful merge holds one declaration per entry and no two with the
\* same (namespace, id); when two entries, of two documents or of one, resolve
\* to the same (namespace, id), the merge fails with a duplicate-ID error
\* naming the path of an earlier and of a later occurrence, and no list.
C1_Uniqueness ==
    MergeReached =>
        IF DupPairs = {}
          THEN /\ parseRet.err.kind = "nil"
               /\ LET ds == parseRet.result.Declarations IN
                  /\ Len(ds) = Len(MergeInput)
                  /\ \A i, j \in 1..Len(ds) :
                       i # j => <<ds[i].Namespace, ds[i].ID>> # <<ds[j].Namespace, ds[j].ID>>
          ELSE /\ parseRet.err.kind = "DuplicateID"
               /\ parseRet.result = NoResult
               /\ \E p \in DupPairs :
                    /\ parseRet.err.namespace = MergeInput[p[2]].config.Namespace
                    /\ parseRet.err.id = MergeInput[p[2]].schema.ID
                    /\ parseRet.err.existingPath = MergeInput[p[1]].config.Path
                    /\ parseRet.err.path = MergeInput[p[2]].config.Path

\* C1 witness: two documents of one namespace declare the same id.
C1_Witness ==
    /\ ParseDone
    /\ parseRet.err.kind = "DuplicateID"
    /\ parseRet.err.existingPath # parseRet.err.path

DiscoveredLangs ==
    {BySchemaURL(files[i].Schema) :
        i \in {k \in 1..Len(files) : files[k].WellFormed
                                      /\ BySchemaURL(files[k].Schema) # NoLang}}

\* C10: when the config documents are of two or more languages and no
\* language filter is given, Parse (unless cancelled) fails with the
\* ambiguous-language error listing every detected language, and returns no
\* ParseResult.
C10_AmbiguousLanguage ==
    (ParseDone /\ parseRet.err.kind # "Cancelled" /\ langFilter = ""
       /\ Cardinality(DiscoveredLangs) >= 2) =>
        /\ parseRet.err.kind = "AmbiguousLanguage"
        /\ parseRet.err.langs = DiscoveredLangs
        /\ parseRet.result = NoResult

\* C10 witness: a TypeScript and a Python config, no filter.
C10_Witness ==
    /\ ParseDone /\ langFilter = "" /\ Len(files) = 2
    /\ parseRet.err.kind = "AmbiguousLanguage"
    /\ parseRet.err.langs = {"typescript", "python"}


ParseSucceeded == ParseDone /\ parseRet.err.kind = "nil"

\* The declarations of the documents of a file list that are configs of a
\* language: document after document, entry after entry, each with the
\* namespace of its document (the override, else the filename stem) and the
\* path of its document.
RECURSIVE DeclsInOrder(_, _)
DeclsInOrder(fs, lang) ==
    IF fs = << >> THEN << >>
    ELSE LET f == fs[1]
             ns == IF f.Namespace = "" THEN f.Path[2] ELSE f.Namespace
             own == IF f.WellFormed /\ IsXSchemaURL(f.Schema) /\ BySchemaURL(f.Schema) = lang
                      THEN [k \in 1..Len(f.Schemas) |->
                              [Namespace |-> ns, ID |-> f.Schemas[k].ID,
                               SourceType |-> f.Schemas[k].SourceType,
                               Source |-> f.Schemas[k].Source,
                               Adapter |-> f.Schemas[k].Adapter,
                               ConfigPath |-> f.Path]]
                      ELSE << >>
         IN own \o DeclsInOrder(Tail(fs), lang)

\* C34: the declarations of a successful Parse are the schema entries of the
\* config documents of the result's language, document after document in the
\* order of discovery and entry after entry in the written order, each with
\* the namespace of its document (the explicit override when it is not
\* empty, else the filename stem) and the path of its document.
C34_DiscoveryOrder ==
    ParseSucceeded =>
        parseRet.result.Declarations = DeclsInOrder(files, parseRet.result.Language)

\* C34 witness: two documents, the first with two entries under its filename
\* stem, the second with an entry under the override "shared".
C34_Witness ==
    /\ ParseSucceeded
    /\ Len(files) = 2
    /\ Len(parseRet.result.Declarations) = 3
    /\ parseRet.result.Declarations[1].ID = "User"
    /\ parseRet.result.Declarations[2].ID = "Post"
    /\ parseRet.result.Declarations[1].Namespace = "users"
    /\ parseRet.result.Declarations[3].Namespace = "shared"
    /\ parseRet.result.Declarations[3].ConfigPath = files[2].Path

\* The pairs of configs handed to mergeDeclarations that resolve to the same
\* namespace.
SharedNamespace ==
    {p \in (1..Len(configs)) \X (1..Len(configs)) :
        p[1] < p[2] /\ configs[p[1]].Namespace = configs[p[2]].Namespace}

\* C35: mergeDeclarations fails only on an id that occurs twice in one
\* namespace: configs that resolve to the same namespace, by an override or
\* by equal filename stems, merge without error into one list that holds the
\* entries of all of them when no id occurs twice in the namespace.
C35_SharedNamespaceMerges ==
    MergeReached =>
        /\ parseRet.err.kind = "DuplicateID" <=> DupPairs # {}
        /\ (SharedNamespace # {} /\ DupPairs = {}) =>
               /\ parseRet.err.kind = "nil"
               /\ Len(parseRet.result.Declarations) = Len(MergeInput)

\* C35 witness: a document named posts and a document that overrides its
\* namespace to "posts" hold different ids and merged into two declarations
\* of the one namespace.
C35_Witness ==
    /\ ParseSucceeded
    /\ Len(files) = 2
    /\ files[1].Namespace = "" /\ files[1].Path[2] = "posts"
    /\ files[2].Namespace = "posts" /\ files[2].Path[2] = "users"
    /\ Len(parseRet.result.Declarations) = 2
    /\ parseRet.result.Declarations[1].Namespace = "posts"
    /\ parseRet.result.Declarations[2].Namespace = "posts"
    /\ parseRet.result.Declarations[1].ID # parseRet.result.Declarations[2].ID

\* The language of the document a declaration comes from.
LanguageOfPath(path) ==
    {BySchemaURL(files[i].Schema) : i \in {k \in 1..Len(files) : files[k].Path = path}}

\* Every config and every declaration of a successful result is of the
\* result's language.
OneLanguage ==
    ParseSucceeded =>
        LET r == parseRet.result IN
        /\ \A k \in 1..Len(r.Configs) : r.Configs[k].Language = r.Language
        /\ \A k \in 1..Len(r.Declarations) :
             LanguageOfPath(r.Declarations[k].ConfigPath) = {r.Language}

\* C11: a successful Parse returns configs and declarations of the one
\* language it reports, and with a language filter given that language is
\* the filter's language, also when every discovered document is of another
\* language.
C11_SingleLanguage ==
    /\ OneLanguage
    /\ (ParseSucceeded /\ langFilter # "") => parseRet.result.Language = ByName(langFilter)

\* The $schema URLs of the documents that lie in the xschema namespace but
\* name no registered language.
UnknownXSchemaURLs ==
    {files[i].Schema :
        i \in {k \in 1..Len(files) : /\ files[k].WellFormed
                                      /\ IsXSchemaURL(files[k].Schema)
                                      /\ BySchemaURL(files[k].Schema) = NoLang}}

\* C12: a document whose $schema starts with the xschema base URL but names
\* no registered language makes Parse (unless cancelled) fail with an error
\* naming that URL; the document is not skipped.
C12_UnknownURLIsHardError ==
    (ParseDone /\ parseRet.err.kind # "Cancelled" /\ UnknownXSchemaURLs # {}) =>
        /\ ~ParseSucceeded
        /\ parseRet.err.kind = "UnknownXSchemaURL"
        /\ parseRet.err.url \in UnknownXSchemaURLs

-----------------------------------------------------------------------------
\* Properties of the generator

GenDone == pcGen = "done"
GenSucceeded == GenDone /\ genRet.err = NoError

\* What the invoked adapters printed, one reply after the other.
RECURSIVE Replies(_)
Replies(calls) ==
    IF calls = << >> THEN << >>
    ELSE Stdout(calls[1].Schemas, adapterBehaviour[calls[1].Adapter]) \o Replies(Tail(calls))

\* The adapter identifiers of the input that sort before a.
Before(a) == {b \in AdaptersIn(genIn) : StrLess(b, a)}

\* C8: the adapter groups are invoked in ascending order of adapter
\* identifier, each once, with exactly the group's schemas in input order;
\* the result is the concatenation of the replies in that order, which for
\* adapters that answer item by item is the input sorted by adapter, input
\* order kept within a group.
C8_SortedGroups ==
    /\ \A k \in 1..Len(genCalls) :
         /\ genCalls[k].Adapter \in AdaptersIn(genIn)
         /\ Cardinality(Before(genCalls[k].Adapter)) = k - 1
         /\ genCalls[k].Schemas = SelectSeq(genIn, LAMBDA x : x.Adapter = genCalls[k].Adapter)
    /\ GenSucceeded =>
         /\ Len(genCalls) = Cardinality(AdaptersIn(genIn))
         /\ genRet.outputs = Replies(genCalls)
         /\ (\A a \in AdaptersIn(genIn) : adapterBehaviour[a] = "positional") =>
              LET out == genRet.outputs IN
              /\ Len(out) = Len(genIn)
              /\ \A p, q \in 1..Len(out) : p < q =>
                   LET i == out[p].ID
                       j == out[q].ID
                   IN \/ StrLess(genIn[i].Adapter, genIn[j].Adapter)
                      \/ (genIn[i].Adapter = genIn[j].Adapter /\ i < j)

\* C8 witness: three schemas of adapters "b", "a", "b" came back as positions 2, 1, 3.
C8_Witness ==
    /\ GenSucceeded
    /\ Len(genIn) = 3
    /\ genIn[1].Adapter = <<2>> /\ genIn[2].Adapter = <<1>> /\ genIn[3].Adapter = <<2>>
    /\ Len(genRet.outputs) = 3
    /\ genRet.outputs[1].ID = 2 /\ genRet.outputs[2].ID = 1 /\ genRet.outputs[3].ID = 3

\* C9: the (namespace, id) keys of a successful generator result match the
\* keys of the input one to one; a reply of another length or without the
\* keys is not returned.
C9_RoundTrip ==
    GenSucceeded =>
        /\ Len(genRet.outputs) = Len(genIn)
        /\ {<<genRet.outputs[k].Namespace, genRet.outputs[k].ID>> : k \in 1..Len(genRet.outputs)}
             = {<<genIn[k].Namespace, genIn[k].ID>> : k \in 1..Len(genIn)}

\* The adapter of the latest subprocess, or << >> before the first one.
LastAdapter == IF genCalls = << >> THEN << >> ELSE genCalls[Len(genCalls)].Adapter

\* C16: when an adapter subprocess exits with a non-zero status, GenerateAll
\* returns the error that names the adapter and carries its stderr, returns
\* no outputs (those of the groups that succeeded before are dropped) and
\* starts no further subprocess.
C16_ExitNonZero ==
    /\ \A k \in 1..(Len(genCalls) - 1) : adapterBehaviour[genCalls[k].Adapter] # "exit1"
    /\ (genCalls # << >> /\ adapterBehaviour[LastAdapter] = "exit1") =>
         /\ GenDone
         /\ genRet.err = <<"AdapterFailed", LastAdapter, Stderr(LastAdapter)>>
         /\ genRet.outputs = NoResult

\* C16 witness: adapter "a" answered its batch, then adapter "b" exited with
\* status 1.
C16_Witness ==
    /\ GenDone
    /\ Len(genCalls) = 2
    /\ adapterBehaviour[genCalls[1].Adapter] = "positional"
    /\ adapterBehaviour[genCalls[2].Adapter] = "exit1"
    /\ allOutputs # << >>
    /\ genRet.outputs = NoResult

-----------------------------------------------------------------------------
\* Properties of the injector

\* C4: injecting into a client file twice leaves the file as the first
\* injection left it, in TypeScript and in Python: the second InjectClient
\* finds key and import present and writes nothing.
C4_Idempotent ==
    (Len(injHist) >= 2 /\ injHist[2].err = "nil") =>
        /\ injHist[2].content = injHist[1].content
        /\ ~injHist[2].wrote

\* The object literal of the factory call in a client text, << >> without one.
ConfigLiteral(content) ==
    LET first == FindFactory(content, FactoryNames[1])
        matches == IF first # << >> THEN first ELSE FindFactory(content, FactoryNames[2])
    IN IF matches = << >> THEN << >> ELSE SubSeq(content, matches[1], matches[2])

\* The positions of the `schemas` keys of an object literal: the name, bare or
\* quoted, right after the opening brace or a comma.
SchemasKeys(config) ==
    LET Ahead(i) ==
            {j \in 1..(i - 1) : config[j] \notin Whitespace \cup {"\"", "'"}}
    IN {i \in 1..Len(config) :
            /\ config[i] = "schemas"
            /\ Ahead(i) # {}
            /\ config[MaxOf(Ahead(i))] \in {"{", ","}}

\* C15: when the object literal of the factory call holds a `schemas` key, in
\* shorthand, pair or quoted form and at any position among its keys, an
\* injection leaves the literal as it is; after every injection the literal
\* holds exactly one `schemas` key.
C15_NoDoubleInjection ==
    [][LET before == ConfigLiteral(clientFile.content)
           after == ConfigLiteral(clientFile'.content)
       IN (clientFile.exists /\ before # << >>) =>
              /\ SchemasKeys(before) # {} => after = before
              /\ Cardinality(SchemasKeys(after)) = 1]_ivars

\* The import line of the generated schemas for the client file at hand.
SchemasImportLine ==
    BuildSchemasImport(injLang, <<".", "/">> \o Base(injOutDir) \o <<"/">>
                                    \o TrimExt(OutputFile(injLang)))

\* The client file already holds all that InjectClient adds: the import line
\* of the schemas, and a `schemas` key in the factory call when there is one.
NothingToInject ==
    /\ Contains(clientFile.content, SchemasImportLine)
    /\ LET config == ConfigLiteral(clientFile.content)
       IN config # << >> => SchemasKeys(config) # {}

\* C22: InjectClient writes the client file only when the content it
\* computed differs from the content it read, and a file that already holds
\* the schemas import and the `schemas` key (or has no factory call to put
\* the key into) is neither written nor changed.
C22_WriteOnlyWhenChanged ==
    [][clientFile.exists =>
           /\ injWrites' # injWrites => clientFile'.content # clientFile.content
           /\ NothingToInject => /\ injWrites' = injWrites
                                 /\ clientFile' = clientFile]_ivars

\* The import path InjectClient looks for in the client file.
SchemasImportPath ==
    <<".", "/">> \o Base(injOutDir) \o <<"/">> \o TrimExt(OutputFile(injLang))

\* The last position of the line that holds position q.
LineEnd(content, q) ==
    MinOf({j \in q..Len(content) : content[j] = "\n"} \cup {Len(content) + 1}) - 1

\* The positions where an import statement of the language starts: the
\* keyword at the start of a line, followed by whitespace.
ImportStarts(content, lang) ==
    {p \in 1..(Len(content) - 1) :
        /\ p = 1 \/ content[p - 1] = "\n"
        /\ content[p] \in ImportKeywords(lang)
        /\ content[p + 1] \in Whitespace}

\* The last position of the import statement that starts at p: the end of
\* its line, or, when the line opens a list of names it does not close, the
\* end of the line that closes the list.
StatementEnd(content, p) ==
    LET first == LineEnd(content, p)
        opened == {j \in p..first : content[j] \in {"{", "("}}
        closedInLine == {j \in p..first : content[j] \in {"}", ")"}}
        closers == {j \in (first + 1)..Len(content) : content[j] \in {"}", ")"}}
    IN IF opened # {} /\ closedInLine = {} /\ closers # {}
         THEN LineEnd(content, MinOf(closers))
         ELSE first

\* A text with the import line of the schemas added: after the last import
\* statement, or as the first line of a text without imports.
WithImportLine(content, lang) ==
    LET starts == ImportStarts(content, lang)
        after == MaxOf({StatementEnd(content, p) : p \in starts})
    IN IF starts = {} THEN SchemasImportLine \o <<"\n">> \o content
       ELSE SubSeq(content, 1, after) \o <<"\n">> \o SchemasImportLine
                \o SubSeq(content, after + 1, Len(content))

\* C23: when the client file does not mention the import path of the
\* schemas, with or without its ./ prefix, InjectClient adds exactly one
\* import line, right after the last import statement of the file or, in a
\* file without imports, as its first line; the rest of the file is as the
\* key injection leaves it.
C23_ImportLinePlaced ==
    [][(/\ clientFile.exists
        /\ ~Contains(clientFile.content, SchemasImportPath)
        /\ ~Contains(clientFile.content, TrimPrefix(SchemasImportPath, <<".", "/">>)))
       => clientFile'.content =
              WithImportLine(injectSchemasIntoConfig(clientFile.content, injLang).content,
                             injLang)]_ivars

\* The factory calls with an object literal as first argument in a text.
FactoryCalls(content) ==
    {p \in 1..Len(content) :
        \E n \in DOMAIN FactoryNames : MatchFactoryAt(content, FactoryNames[n], p) # << >>}

\* The texts that differ from a text by one added line at most.
WithLineAdded(content, line) ==
    {content}
    \cup {SubSeq(content, 1, k) \o added \o SubSeq(content, k + 1, Len(content)) :
            k \in 0..Len(content), added \in {line \o <<"\n">>, <<"\n">> \o line}}

\* C26: on a client file that holds no factory call with an object literal,
\* or more than one, InjectClient returns without an error and puts no
\* `schemas` key into the file: the file changes by the added import line
\* at most.
C26_NoKeyWithoutSingleCall ==
    [][(clientFile.exists /\ Cardinality(FactoryCalls(clientFile.content)) # 1) =>
           /\ injHist'[Len(injHist')].err = "nil"
           /\ clientFile'.content \in WithLineAdded(clientFile.content, SchemasImportLine)]_ivars

\* The closing brace of the object literal that opens at position b: the
\* first position up to which the braces balance, 0 when there is none.
ClosingBrace(content, b) ==
    LET Opened(c) == Cardinality({j \in b..c : content[j] = "{"})
        Closed(c) == Cardinality({j \in b..c : content[j] = "}"})
        ends == {c \in (b + 1)..Len(content) : Opened(c) = Closed(c)}
    IN IF ends = {} THEN 0 ELSE MinOf(ends)

\* The factory call at position p with an object literal, nested literals
\* included, as its only argument: the bounds of the literal, or << >>.
LiteralArgAt(content, p) ==
    IF \A n \in DOMAIN FactoryNames : content[p] # FactoryNames[n] THEN << >>
    ELSE LET a == SkipSpace(content, p + 1) IN
    IF a > Len(content) \/ content[a] # "(" THEN << >>
    ELSE LET b == SkipSpace(content, a + 1) IN
    IF b > Len(content) \/ content[b] # "{" THEN << >>
    ELSE LET c == ClosingBrace(content, b) IN
    IF c = 0 THEN << >>
    ELSE LET d == SkipSpace(content, c + 1)
         IN IF d > Len(content) \/ content[d] # ")" THEN << >> ELSE <<b, c>>

\* The first of those calls in a text.
LiteralArg(content) ==
    LET hits == {p \in 1..Len(content) : LiteralArgAt(content, p) # << >>}
    IN IF hits = {} THEN << >> ELSE LiteralArgAt(content, MinOf(hits))

\* The characters of a text other than whitespace.
IsSolid(t) == t \notin Whitespace
Solid(s) == SelectSeq(s, IsSolid)

\* A text with `schemas` put in as the first key of the literal at <<b, c>>.
WithSchemasFirst(content, b, c) ==
    SubSeq(content, 1, b) \o <<"schemas">>
        \o (IF Solid(SubSeq(content, b + 1, c - 1)) = << >> THEN << >> ELSE <<",">>)
        \o SubSeq(content, b + 1, Len(content))

\* C31: when the object literal of the factory call, with or without nested
\* literals, holds no `schemas` key, InjectClient puts `schemas` in as its
\* first key; whitespace and the added import line aside, every other
\* character of the literal and of the file stays as it was.
C31_KeyInsertedFirst ==
    [][LET content == clientFile.content
           arg == LiteralArg(content)
       IN (/\ clientFile.exists
           /\ arg # << >>
           /\ SchemasKeys(SubSeq(content, arg[1], arg[2])) = {})
          => Solid(clientFile'.content) =
                 Solid(injectSchemasImport(WithSchemasFirst(content, arg[1], arg[2]),
                                           SchemasImportPath, injLang))]_ivars

-----------------------------------------------------------------------------
\* Properties of import merging

MergeDone == mergePc = "done"

\* The statements of a merged import text, one per line.
Statements(text) == IF text = << >> THEN << >> ELSE Split(text, "\n")

\* The source an import string or statement names: the quoted module of a
\* TypeScript import, the module after the keyword of a Python import.
SourceOf(lang, stmt) ==
    IF lang = "typescript"
      THEN QuotedAt(stmt, MinOf({i \in 1..Len(stmt) : stmt[i] \in Quotes} \cup {Len(stmt) + 1}))
      ELSE <<stmt[3]>>

\* The specifiers of a statement: the names between the braces of a
\* TypeScript import, the names after `import` of a Python from-import.
SpecifiersOf(lang, stmt) ==
    LET from == IF lang = "typescript"
                  THEN {i \in 1..Len(stmt) : stmt[i] = "{"}
                  ELSE {i \in 2..Len(stmt) : stmt[i] = "import"}
        upto == IF lang = "typescript"
                  THEN MinOf({i \in 1..Len(stmt) : stmt[i] = "}"} \cup {Len(stmt) + 1})
                  ELSE Len(stmt) + 1
    IN IF from = {} THEN << >>
       ELSE SelectSeq(SubSeq(stmt, MinOf(from) + 1, upto - 1), LAMBDA t : t \notin Marks)

\* C14: the merged output of a list of import strings holds exactly one
\* statement per source the list names, the specifiers of each statement are
\* sorted and free of duplicates, and the statements are sorted by source.
C14_OneSortedStatementPerSource ==
    MergeDone =>
        LET out == Statements(mergeOut)
            sources == {SourceOf(mergeLang, mergeIn[i]) : i \in 1..Len(mergeIn)}
        IN /\ \A src \in sources :
                 Cardinality({k \in 1..Len(out) : SourceOf(mergeLang, out[k]) = src}) = 1
           /\ \A k \in 1..Len(out) :
                 LET names == SpecifiersOf(mergeLang, out[k])
                 IN \A a, b \in 1..Len(names) :
                        a < b => TextLess(<<names[a]>>, <<names[b]>>)
           /\ \A k \in 1..(Len(out) - 1) :
                 ~TextLess(SourceOf(mergeLang, out[k + 1]), SourceOf(mergeLang, out[k]))

\* The default name of a TypeScript import statement: the word right after
\* `import`, "" for a statement without one.
DefaultOf(stmt) ==
    IF Len(stmt) >= 3 /\ stmt[3] \notin Marks \cup Quotes \cup {"type"} THEN stmt[3] ELSE ""

\* A side-effect import: import "source".
IsSideEffect(stmt) == Len(stmt) >= 3 /\ stmt[3] \in Quotes

\* The names in a sequence.
NamesIn(names) == {names[k] : k \in 1..Len(names)}

\* C33: the merged TypeScript imports hold, in a statement for the same
\* source, every named specifier, every default name and every side-effect
\* import of every import string of the input.
C33_NothingLost ==
    (MergeDone /\ mergeLang = "typescript") =>
        LET out == Statements(mergeOut) IN
        \A i \in 1..Len(mergeIn) :
            LET imp == mergeIn[i]
                same == {k \in 1..Len(out) :
                            SourceOf(mergeLang, out[k]) = SourceOf(mergeLang, imp)}
            IN /\ \A n \in NamesIn(SpecifiersOf(mergeLang, imp)) :
                      \E k \in same : n \in NamesIn(SpecifiersOf(mergeLang, out[k]))
               /\ DefaultOf(imp) # "" =>
                      \E k \in same : DefaultOf(out[k]) = DefaultOf(imp)
               /\ IsSideEffect(imp) => \E k \in same : IsSideEffect(out[k])

-----------------------------------------------------------------------------
\* Properties of the generate command

\* C20: in a dry run no adapter subprocess is started and no file is
\* written, neither the generated file nor the client file, at any point of
\* any execution; the run ends after retrieval.
C20_DryRunWritesNothing ==
    cfg.DryRun =>
        /\ subprocs = << >>
        /\ written = {}
        /\ runPc \notin {"inject"}

\* C20 witness: a dry run that retrieved two batches, printed its plan and
\* returned nil.
C20_Witness ==
    /\ cfg.DryRun
    /\ runPc = "done"
    /\ runErr = NoError
    /\ Len(plan) = 2

-----------------------------------------------------------------------------
\* C21: the stage calls of a run are made in the order parse, retrieve,
\* generate, inject, and an error of a stage ends the run: after a parse
\* error nothing but Parse was called, after a retrieval error no adapter
\* subprocess was started, and after the error of an adapter group nothing
\* was injected or written, whatever the groups before it generated.
StageRank(stage) ==
    CASE stage = "parse" -> 1 [] stage = "retrieve" -> 2
      [] stage = "generate" -> 3 [] stage = "inject" -> 4

\* The stage tag of the error the run returned ("" for nil).
FailedStage == IF runErr = NoError THEN "" ELSE runErr[1]

C21_StagesInOrderAndAbort ==
    /\ \A i, j \in 1..Len(stages) : i < j => StageRank(stages[i]) <= StageRank(stages[j])
    /\ \A i \in 1..Len(stages) : stages[i] \in {"parse", "retrieve"} => i = StageRank(stages[i])
    /\ FailedStage # "" => runPc = "done"
    /\ FailedStage = "parse" => stages = <<"parse">>
    /\ FailedStage = "retrieve" =>
           /\ stages = <<"parse", "retrieve">>
           /\ subprocs = << >>
    /\ FailedStage = "generate" =>
           /\ stages[Len(stages)] = "generate"
           /\ written = {}

\* C21 witness: the second adapter group fails after the first generated
\* successfully, and the run ended without an inject call.
C21_Witness ==
    /\ runPc = "done"
    /\ FailedStage = "generate"
    /\ stages = <<"parse", "retrieve", "generate", "generate">>
    /\ outputsByLang # << >>

\* Properties of the pipeline

-----------------------------------------------------------------------------
\* Properties of the adapter subprocess

\* C27: Generate returns only when the subprocess it started has exited and
\* has been waited on, also when the context is cancelled while the
\* subprocess runs, so no adapter process outlives the call; a Generate
\* called with a cancelled context returns an error.
C27_NoOrphanedSubprocess ==
    execPc = "done" =>
        /\ proc \in {"none", "reaped"}
        /\ execIn.cancelledBefore => execRet.err # NoError /\ proc = "none"

\* C27 witness: the context was cancelled while an adapter process that
\* never ends by itself was running; the process was killed and reaped and
\* Generate returned the cancellation error.
C27_Witness ==
    /\ execPc = "done"
    /\ ~execIn.cancelledBefore
    /\ execIn.behaviour = "hang"
    /\ procKilled
    /\ proc = "reaped"
    /\ execRet.err = "Cancelled"

-----------------------------------------------------------------------------
\* schemaCache under concurrent calls.

\* The calls that hold the mutex for reading, and those that hold it for
\* writing.
CacheReading == {i \in 1..NCacheCalls : scPc[i] \in {"rlocked", "read"}}
CacheWriting == {i \in 1..NCacheCalls : scPc[i] \in {"locked", "half", "stored"}}

\* The values of the sets on key k that have returned.
ValuesSet(k) ==
    {scOps[j].val : j \in {j \in 1..NCacheCalls :
                              /\ scOps[j].kind = "set"
                              /\ scOps[j].key = k
                              /\ scPc[j] = "done"}}

\* C29: a set excludes every other get and set while it holds the mutex; a
\* get returns "absent" or the whole value of a set on its key that returned
\* before, never a mix of two values; and whenever no set is under way a key
\* holds the value of one of the sets made on it, or nothing when there was
\* none.
C29_ReadersWriter ==
    /\ CacheWriting # {} => Cardinality(CacheWriting) = 1 /\ CacheReading = {}
    /\ \A i \in 1..NCacheCalls :
           scGot[i] # << >> =>
               \/ scGot[i] = CacheAbsent
               \/ scGot[i] \in ValuesSet(scOps[i].key)
    /\ CacheWriting = {} =>
           \A k \in CacheKeys :
               IF ValuesSet(k) = {} THEN scItems[k] = CacheAbsent
               ELSE scItems[k] \in ValuesSet(k)

\* C29 witness: two gets hold the mutex together after two sets of different
\* values raced on their key; one get has read the value that won.
C29_Witness ==
    /\ Cardinality(CacheReading) = 2
    /\ \E k \in CacheKeys :
           /\ ValuesSet(k) = CacheValues
           /\ \A i \in CacheReading : scOps[i].key = k
           /\ \E i \in CacheReading : scGot[i] = scItems[k] /\ scGot[i] \in CacheValues

-----------------------------------------------------------------------------
\* Invalid JSON and missing files.

\* C30: a 200 answer whose body is not valid JSON ends the fetch with that
\* request, whatever attempts remain; a file that is missing or holds invalid
\* JSON is loaded once and the worker returns the error; and in neither case
\* does the cache get an entry for the source.
C30_InvalidIsTerminal ==
    \A i \in 1..N :
        LET w == workers[i] IN
        /\ (SoleURL(i) /\ srvFinal = "badjson") =>
               /\ w.reqs <= srvK + 1
               /\ w.reqs = srvK + 1 =>
                    /\ w.pc \in {"return", "exited"}
                    /\ w.err = "InvalidJSON"
        /\ (decls[i].SourceType = SourceURL /\ srvFinal = "badjson") =>
               /\ w.pc \notin {"store", "finish"}
               /\ cache[CacheKey(decls[i])] = NoEntry
        /\ (decls[i].SourceType = SourceFile /\ fileStatus \in {"missing", "badjson"}) =>
               /\ w.fetches <= 1
               /\ w.pc \notin {"request", "backoff", "store", "finish"}
               /\ w.pc \in {"return", "exited"} =>
                    w.err \in {IF fileStatus = "missing" THEN "ReadFailed" ELSE "InvalidJSON",
                               "Cancelled"}
               /\ cache[CacheKey(decls[i])] = NoEntry

\* C30 witness: with two attempts allowed a fetch ended at its first request,
\* answered 200 with an invalid body, and a file load of the same batch
\* failed as well; the cache is in use and empty.
C30_Witness ==
    /\ ~opts.NoCache
    /\ opts.Retries = 2
    /\ srvFinal = "badjson" /\ srvK = 0
    /\ \E i, j \in 1..N :
           /\ SoleURL(i)
           /\ workers[i].pc = "exited" /\ workers[i].err = "InvalidJSON"
           /\ workers[i].reqs = 1
           /\ decls[j].SourceType = SourceFile
           /\ workers[j].pc = "exited" /\ workers[j].err \in {"ReadFailed", "InvalidJSON"}
    /\ \A k \in DOMAIN cache : cache[k] = NoEntry

-----------------------------------------------------------------------------
\* The output file under a concurrent reader.

\* C32: whatever a process reads from the output file while Inject runs is
\* the file as it was before Inject (its whole content, or no file) or the
\* whole new content, never an empty or a partly written file.
C32_ReaderSeesWholeFile ==
    \A k \in 1..Len(seen) :
        seen[k] \in {outPrev, [exists |-> TRUE, content |-> rendered]}

-----------------------------------------------------------------------------
\* Termination of Retrieve

\* C36: Retrieve is never blocked for good: whatever the options,
\* Concurrency zero or negative and Retries zero included, as long as
\* Retrieve has not returned it or one of its workers can take a step.
\* Every step moves the loop or a worker forward and the attempts are
\* bounded, so a Retrieve that is never blocked returns.
C36_NeverBlocked == pcMain # "done" => ENABLED RetrieveSteps

-----------------------------------------------------------------------------
\* The slots of the result list

\* C37: every slot of results is written once at most, by the dispatch loop
\* on a cache hit or by the worker started for its declaration, never by
\* both; the loop has passed a declaration before its worker exists, so the
\* two never stand before a write to the same slot; Retrieve reads the list
\* only when every worker it started has exited; and on success every slot
\* was written.
C37_OneWriterPerSlot ==
    \A i \in 1..N :
        /\ Len(slotWrites[i]) <= 1
        /\ slotWrites[i] = <<"loop">> => workers[i].pc = "idle"
        /\ slotWrites[i] = <<"worker">> => workers[i].pc \in {"return", "exited"}
        /\ workers[i].pc # "idle" => idx > i
        /\ Returned => workers[i].pc \in {"idle", "exited"}
        /\ Succeeded => Len(slotWrites[i]) = 1

\* C37 witness: a successful Retrieve of two declarations of one URL: the
\* first slot written by its worker, the second by the loop from the cache.
C37_Witness ==
    /\ Succeeded
    /\ N = 2
    /\ slotWrites = << <<"worker">>, <<"loop">> >>
    /\ workers[1].pc = "exited" /\ workers[2].pc = "idle"

\* The attempts of a URL fetch are over: it returned a schema or an error.
AfterFetch(i) == decls[i].SourceType = SourceURL /\ FetchEnded(i)

ReturnedError(i) == workers[i].pc = "exited" /\ workers[i].err # NoError

\* C39: a Retrieve that returns an error returns no result list, whatever
\* was retrieved before, and the error is the one of the worker that was the
\* first to return an error; on an empty declaration list Retrieve returns
\* an empty result and no error, and no worker is ever started.
C39_ErrorOrResults ==
    /\ []((Returned /\ ret.err # NoError) =>
             (ret.results = NoResult /\ ret.err = gerr))
    /\ []((Returned /\ \E i \in 1..N : ReturnedError(i)) => ret.err # NoError)
    /\ [][\A i \in 1..N :
            (~ReturnedError(i) /\ ReturnedError(i)') =>
                IF \E j \in 1..N : ReturnedError(j)
                    THEN gerr' = gerr
                    ELSE gerr' = <<Key(decls[i]), workers[i].err>>]_vars
    /\ [](N = 0 =>
             /\ running = 0 /\ gerr = NoError /\ pcMain \in {"entry", "done"}
             /\ \A u \in DOMAIN srvHits : srvHits[u] = 0
             /\ Returned => ret = [results |-> << >>, err |-> NoError])

\* C39 witness: of two declarations the first was retrieved and stored in
\* its slot, the second failed, and Retrieve returned the error of the
\* second and no list.
C39_Witness ==
    /\ Returned /\ N = 2
    /\ workers[1].pc = "exited" /\ workers[1].err = NoError
    /\ slotWrites[1] = <<"worker">>
    /\ ReturnedError(2)
    /\ ret = [results |-> NoResult, err |-> <<Key(decls[2]), workers[2].err>>]

\* An empty declaration list was retrieved.
C39_WitnessEmpty == Returned /\ N = 0 /\ ret.results = << >>

=============================================================================
